---------------------------- MODULE Spec2Model ----------------------------
(***************************************************************************)
(* The thought lifecycle engine of the sequential-thinking server:         *)
(* stage resolution, validation, the two memory tiers, reasoning tags,     *)
(* branch bookkeeping and the tool operations of                           *)
(* EnhancedSequentialThinkingServer.                                       *)
(*                                                                         *)
(* Conventions of the translation                                          *)
(*  - A JavaScript value that may be undefined is a sequence of length at  *)
(*    most one: <<>> is undefined, <<v>> is the value v.                   *)
(*  - A stage string is a sequence of one-character strings, so that       *)
(*    toUpperCase and string equality are computed character by character. *)
(*  - Scores are counted in hundredths: 70 is 0.7, 100 is 1.0. What the    *)
(*    program computes from a score (a quality metric, a mean) is the JS   *)
(*    number, an IEEE 754 binary64 value m * 2^e.                          *)
(*  - Thought objects live in heap; the history, the memory tiers and the  *)
(*    branch lists hold references (indices into heap), as the arrays of   *)
(*    the program hold references to the same objects.                     *)
(*  - An operation that may throw yields [threw |-> FALSE, value |-> v] or *)
(*    [threw |-> TRUE, error |-> [ctor, message]].                         *)
(*  - The fields thought, nextThoughtNeeded, needsMoreThoughts and         *)
(*    createdAt of a thought are copied and never read by any operation;   *)
(*    they are left out of the thought record.                             *)
(***************************************************************************)
EXTENDS Integers, Sequences, FiniteSets, TLC

VARIABLES
  heap,              \* the ThoughtData objects allocated since the last clear
  thoughtHistory,    \* SequentialThinkingServer.thoughtHistory (references)
  branches,          \* SequentialThinkingServer.branches: own keys in insertion order
  activeBranchId,    \* SequentialThinkingServer.activeBranchId
  shortTermBuffer,   \* MemoryManager.shortTermBuffer (references)
  longTermStorage,   \* MemoryManager.longTermStorage: own keys in insertion order
  request,           \* the last tool call received: its operation and its input
  response,          \* what that call gave back to its caller
  captured,          \* history variable: numbers captured with success since the last clear
  accepted,          \* history variable: the thoughts those successful calls stored, in order
  eventLoop          \* the calls received and not yet handled, and the handlers begun

stores == <<heap, thoughtHistory, branches, activeBranchId, shortTermBuffer, longTermStorage>>
vars == <<heap, thoughtHistory, branches, activeBranchId, shortTermBuffer,
          longTermStorage, request, response, captured, accepted, eventLoop>>

---------------------------------------------------------------------------
(* Bounds of the model *)

\* thoughts a session of Spec accepts before it is cleared
MaxHistory == 2
\* thoughts a session of SpecValidate accepts before it is cleared
MaxValidated == 1
\* tags a thought carries before applyReasoning is no longer called on it
MaxTags == 2
\* characters of a stage string whose case a probe changes
MaxFlips == 2

---------------------------------------------------------------------------
(* JavaScript values *)

None == <<>>
Some(v) == <<v>>
IsDefined(o) == o # <<>>

\* `x && ...` on an optional number: undefined and 0 are falsy
TruthyNumber(o) == IsDefined(o) /\ o[1] # 0
\* `x && ...` on an optional string: undefined and "" are falsy
TruthyString(o) == IsDefined(o) /\ o[1] # ""

Return(v) == [threw |-> FALSE, value |-> v]
Throw(ctor, message) == [threw |-> TRUE, error |-> [ctor |-> ctor, message |-> message]]

\* A message: the words of its template and the values interpolated into it
Msg(words, args) == [words |-> words, args |-> args]

Min(S) == CHOOSE i \in S : \A j \in S : i <= j

---------------------------------------------------------------------------
(* Stage vocabulary and stage resolution *)

ThoughtStage ==
  << [name  |-> <<"P","R","O","B","L","E","M","_","D","E","F","I","N","I","T","I","O","N">>,
      value |-> <<"P","r","o","b","l","e","m"," ","D","e","f","i","n","i","t","i","o","n">>],
     [name  |-> <<"P","L","A","N">>,
      value |-> <<"P","l","a","n">>],
     [name  |-> <<"R","E","S","E","A","R","C","H">>,
      value |-> <<"R","e","s","e","a","r","c","h">>],
     [name  |-> <<"A","N","A","L","Y","S","I","S">>,
      value |-> <<"A","n","a","l","y","s","i","s">>],
     [name  |-> <<"I","D","E","A","T","I","O","N">>,
      value |-> <<"I","d","e","a","t","i","o","n">>],
     [name  |-> <<"S","Y","N","T","H","E","S","I","S">>,
      value |-> <<"S","y","n","t","h","e","s","i","s">>],
     [name  |-> <<"E","V","A","L","U","A","T","I","O","N">>,
      value |-> <<"E","v","a","l","u","a","t","i","o","n">>],
     [name  |-> <<"R","E","F","I","N","E","M","E","N","T">>,
      value |-> <<"R","e","f","i","n","e","m","e","n","t">>],
     [name  |-> <<"I","M","P","L","E","M","E","N","T","A","T","I","O","N">>,
      value |-> <<"I","m","p","l","e","m","e","n","t","a","t","i","o","n">>],
     [name  |-> <<"C","O","N","C","L","U","S","I","O","N">>,
      value |-> <<"C","o","n","c","l","u","s","i","o","n">>] >>

\* Object.keys(ThoughtStage) and Object.values(ThoughtStage), in declaration order
ObjectKeys_ThoughtStage == [i \in DOMAIN ThoughtStage |-> ThoughtStage[i].name]
ObjectValues_ThoughtStage == [i \in DOMAIN ThoughtStage |-> ThoughtStage[i].value]

ANALYSIS == ThoughtStage[4].value
IDEATION == ThoughtStage[5].value
SYNTHESIS == ThoughtStage[6].value
EVALUATION == ThoughtStage[7].value

LowerCaseLetters == <<"a","b","c","d","e","f","g","h","i","j","k","l","m","n","o","p","q","r","s","t","u","v","w","x","y","z">>
UpperCaseLetters == <<"A","B","C","D","E","F","G","H","I","J","K","L","M","N","O","P","Q","R","S","T","U","V","W","X","Y","Z">>

\* The upper-case letter of each lower-case letter
UpperCaseOf ==
  [c \in {LowerCaseLetters[k] : k \in DOMAIN LowerCaseLetters} |->
     UpperCaseLetters[CHOOSE k \in DOMAIN LowerCaseLetters : LowerCaseLetters[k] = c]]

\* String.prototype.toUpperCase on the characters the model uses
toUpperCase(s) ==
  [i \in DOMAIN s |-> IF s[i] \in DOMAIN UpperCaseOf THEN UpperCaseOf[s[i]] ELSE s[i]]

\* stageName.toUpperCase() and stageValue.toUpperCase() of every stage
UpperNames == [i \in DOMAIN ThoughtStage |-> toUpperCase(ThoughtStage[i].name)]
UpperValues == [i \in DOMAIN ThoughtStage |-> toUpperCase(ThoughtStage[i].value)]

\* Mutant: the message lists the symbolic names (Object.keys) instead of the labels
InvalidStageMessage_Keys(value) ==
  Msg(<<"Invalid", "stage:", "${value}.", "Valid", "stages", "are:", "${values}">>,
      <<value, ObjectKeys_ThoughtStage>>)

\* The error of thoughtStageFromString: the value given and the list of valid stages
InvalidStageMessage(value) ==
  Msg(<<"Invalid", "stage:", "${value}.", "Valid", "stages", "are:", "${values}">>,
      <<value, ObjectValues_ThoughtStage>>)

\* Mutant: the second tier (symbolic enum names) is skipped
thoughtStageFromString_NoNames(value) ==
  IF ~IsDefined(value)
  THEN Throw("TypeError", Msg(<<"Cannot", "read", "properties", "of", "undefined">>, <<>>))
  ELSE LET s == value[1]
           upperValue == toUpperCase(s)
           byValue == {i \in DOMAIN ThoughtStage : UpperValues[i] = upperValue}
       IN IF \E i \in DOMAIN ThoughtStage : ThoughtStage[i].value = s THEN Return(s)
          ELSE IF byValue # {} THEN Return(ThoughtStage[Min(byValue)].value)
          ELSE Throw("Error", InvalidStageMessage(s))

thoughtStageFromString(value) ==
  IF ~IsDefined(value)
  THEN \* undefined.toUpperCase()
       Throw("TypeError", Msg(<<"Cannot", "read", "properties", "of", "undefined">>, <<>>))
  ELSE LET s == value[1]
           upperValue == toUpperCase(s)
           byName == {i \in DOMAIN ThoughtStage : UpperNames[i] = upperValue}
           byValue == {i \in DOMAIN ThoughtStage : UpperValues[i] = upperValue}
       IN IF \E i \in DOMAIN ThoughtStage : ThoughtStage[i].value = s THEN Return(s)
          ELSE IF byName # {} THEN Return(ThoughtStage[Min(byName)].value)
          ELSE IF byValue # {} THEN Return(ThoughtStage[Min(byValue)].value)
          ELSE Throw("Error", InvalidStageMessage(s))

---------------------------------------------------------------------------
(* Thought validator *)

\* Mutant: the revision rule lets a thought revise itself (> instead of >=)
validateThought_ReviseSelf(thought) ==
  IF thought.thoughtNumber < 1
  THEN Throw("Error", Msg(<<"Thought", "number", "must", "be", "positive">>, <<>>))
  ELSE IF thought.totalThoughts < thought.thoughtNumber
  THEN Throw("Error", Msg(<<"Total", "thoughts", "must", "be", "greater", "than", "or",
                            "equal", "to", "thought", "number">>, <<>>))
  ELSE IF IsDefined(thought.score) /\ (thought.score[1] < 0 \/ thought.score[1] > 100)
  THEN Throw("Error", Msg(<<"Score", "must", "be", "between", "0", "and", "1">>, <<>>))
  ELSE IF IsDefined(thought.revisesThought) /\ thought.revisesThought[1] > thought.thoughtNumber
  THEN Throw("Error", Msg(<<"Cannot", "revise", "a", "future", "thought">>, <<>>))
  ELSE Return(TRUE)

\* Mutant: the revision rule is checked first
validateThought_RevisionFirst(thought) ==
  IF IsDefined(thought.revisesThought) /\ thought.revisesThought[1] >= thought.thoughtNumber
  THEN Throw("Error", Msg(<<"Cannot", "revise", "a", "future", "thought">>, <<>>))
  ELSE IF thought.thoughtNumber < 1
  THEN Throw("Error", Msg(<<"Thought", "number", "must", "be", "positive">>, <<>>))
  ELSE IF thought.totalThoughts < thought.thoughtNumber
  THEN Throw("Error", Msg(<<"Total", "thoughts", "must", "be", "greater", "than", "or",
                            "equal", "to", "thought", "number">>, <<>>))
  ELSE IF IsDefined(thought.score) /\ (thought.score[1] < 0 \/ thought.score[1] > 100)
  THEN Throw("Error", Msg(<<"Score", "must", "be", "between", "0", "and", "1">>, <<>>))
  ELSE Return(TRUE)

\* Mutant: the total-thoughts rule is missing
validateThought_NoTotal(thought) ==
  IF thought.thoughtNumber < 1
  THEN Throw("Error", Msg(<<"Thought", "number", "must", "be", "positive">>, <<>>))
  ELSE IF IsDefined(thought.score) /\ (thought.score[1] < 0 \/ thought.score[1] > 100)
  THEN Throw("Error", Msg(<<"Score", "must", "be", "between", "0", "and", "1">>, <<>>))
  ELSE IF IsDefined(thought.revisesThought) /\ thought.revisesThought[1] >= thought.thoughtNumber
  THEN Throw("Error", Msg(<<"Cannot", "revise", "a", "future", "thought">>, <<>>))
  ELSE Return(TRUE)

validateThought(thought) ==
  IF thought.thoughtNumber < 1
  THEN Throw("Error", Msg(<<"Thought", "number", "must", "be", "positive">>, <<>>))
  ELSE IF thought.totalThoughts < thought.thoughtNumber
  THEN Throw("Error", Msg(<<"Total", "thoughts", "must", "be", "greater", "than", "or",
                            "equal", "to", "thought", "number">>, <<>>))
  ELSE IF IsDefined(thought.score) /\ (thought.score[1] < 0 \/ thought.score[1] > 100)
  THEN Throw("Error", Msg(<<"Score", "must", "be", "between", "0", "and", "1">>, <<>>))
  ELSE IF IsDefined(thought.revisesThought) /\ thought.revisesThought[1] >= thought.thoughtNumber
  THEN Throw("Error", Msg(<<"Cannot", "revise", "a", "future", "thought">>, <<>>))
  ELSE Return(TRUE)

\* catch (e) { throw new Error(`Invalid thought data: ${e.message}`) }
InvalidThoughtData(e) ==
  Throw("Error", Msg(<<"Invalid", "thought", "data:">> \o e.message.words, e.message.args))

validateThoughtData(inputData) ==
  LET stage == thoughtStageFromString(inputData.stage) IN
  IF stage.threw THEN InvalidThoughtData(stage.error)
  ELSE LET thoughtData == [thoughtNumber     |-> inputData.thoughtNumber,
                           totalThoughts     |-> inputData.totalThoughts,
                           stage             |-> stage.value,
                           isRevision        |-> inputData.isRevision,
                           revisesThought    |-> inputData.revisesThought,
                           branchFromThought |-> inputData.branchFromThought,
                           branchId          |-> inputData.branchId,
                           score             |-> inputData.score,
                           tags              |-> inputData.tags]
           checked == validateThought(thoughtData)
       IN IF checked.threw THEN InvalidThoughtData(checked.error)
          ELSE Return(thoughtData)

---------------------------------------------------------------------------
(* Property maps: a plain object {} used as a map *)

\* Names every plain object inherits from Object.prototype: obj[k] is defined
\* (and is not an array) for these k although k is no own key
ObjectPrototypeKeys ==
  {"constructor", "toString", "toLocaleString", "valueOf", "hasOwnProperty",
   "isPrototypeOf", "propertyIsEnumerable", "__proto__", "__defineGetter__",
   "__defineSetter__", "__lookupGetter__", "__lookupSetter__"}

\* An object is a sequence of [key, thoughts] entries, own keys in insertion order
OwnIndex(obj, k) ==
  LET hits == {i \in DOMAIN obj : obj[i].key = k} IN
  IF hits = {} THEN 0 ELSE Min(hits)

\* obj[k]: an own array, a member inherited from Object.prototype, or undefined
ObjectGet(obj, k) ==
  IF OwnIndex(obj, k) # 0 THEN [kind |-> "array", index |-> OwnIndex(obj, k)]
  ELSE IF k \in ObjectPrototypeKeys THEN [kind |-> "inherited", index |-> 0]
  ELSE [kind |-> "undefined", index |-> 0]

\* obj[k] = [] for a k that ObjectGet finds undefined
ObjectCreate(obj, k) == Append(obj, [key |-> k, thoughts |-> <<>>])

\* obj[k].push(ref) for an own array
ObjectPush(obj, k, ref) ==
  [obj EXCEPT ![OwnIndex(obj, k)].thoughts = Append(@, ref)]

ObjectOwnKeys(obj) == [i \in DOMAIN obj |-> obj[i].key]

---------------------------------------------------------------------------
(* Memory manager *)

importanceThreshold == 70
maxBufferSize == 10

processBuffer(buffer) ==
  SubSeq(buffer, Len(buffer) - maxBufferSize + 1, Len(buffer))

\* Mutant: every thought with a score is promoted, whatever the score
consolidateMemory_AnyScore(buffer, storage, ref, thought) ==
  LET pushed == Append(buffer, ref)
      kept == IF Len(pushed) > maxBufferSize THEN processBuffer(pushed) ELSE pushed
      category == thought.stage
      promoted ==
        IF TruthyNumber(thought.score)
        THEN LET made == IF OwnIndex(storage, category) = 0
                         THEN ObjectCreate(storage, category) ELSE storage
             IN ObjectPush(made, category, ref)
        ELSE storage
  IN [shortTermBuffer |-> kept, longTermStorage |-> promoted]

consolidateMemory(buffer, storage, ref, thought) ==
  LET pushed == Append(buffer, ref)
      kept == IF Len(pushed) > maxBufferSize THEN processBuffer(pushed) ELSE pushed
      category == thought.stage
      promoted ==
        IF TruthyNumber(thought.score) /\ thought.score[1] >= importanceThreshold
        THEN LET made == IF OwnIndex(storage, category) = 0
                         THEN ObjectCreate(storage, category) ELSE storage
             IN ObjectPush(made, category, ref)
        ELSE storage
  IN [shortTermBuffer |-> kept, longTermStorage |-> promoted]

RECURSIVE Flatten(_)
Flatten(lists) ==
  IF lists = <<>> THEN <<>> ELSE Head(lists) \o Flatten(Tail(lists))

\* Mutant: a stored thought qualifies only when every tag of it is shared (every for some)
MemoryManager_retrieveRelevantThoughts_Every(storage, objects, currentThought) ==
  LET all == Flatten([i \in DOMAIN storage |-> storage[i].thoughts])
      shares(ref) == \A i \in DOMAIN objects[ref].tags :
                       \E j \in DOMAIN currentThought.tags :
                         objects[ref].tags[i] = currentThought.tags[j]
  IN SelectSeq(all, shares)

\* Mutant: the matches come back in the order of their capture
MemoryManager_retrieveRelevantThoughts_CaptureOrder(storage, objects, currentThought) ==
  LET all == Flatten([i \in DOMAIN storage |-> storage[i].thoughts])
      shares(ref) == \E i \in DOMAIN objects[ref].tags :
                       \E j \in DOMAIN currentThought.tags :
                         objects[ref].tags[i] = currentThought.tags[j]
  IN SortSeq(SelectSeq(all, shares), LAMBDA a, b : a < b)

\* The references of long-term storage that share a tag with currentThought,
\* stage by stage in key order
MemoryManager_retrieveRelevantThoughts(storage, objects, currentThought) ==
  LET all == Flatten([i \in DOMAIN storage |-> storage[i].thoughts])
      shares(ref) == \E i \in DOMAIN objects[ref].tags :
                       \E j \in DOMAIN currentThought.tags :
                         objects[ref].tags[i] = currentThought.tags[j]
  IN SelectSeq(all, shares)

---------------------------------------------------------------------------
(* Reasoning engine *)

\* reasoningPatterns: the tag each pattern's function pushes
reasoningPatterns ==
  [deductive |-> "deductive", inductive |-> "inductive", abductive |-> "abductive",
   analogical |-> "analogical", creative |-> "creative"]

\* Mutant: Synthesis is given the analogical pattern
analyzeThoughtPattern_Analogical(thought) ==
  IF thought.stage = ANALYSIS \/ thought.stage = EVALUATION THEN "deductive"
  ELSE IF thought.stage = IDEATION THEN "creative"
  ELSE IF thought.stage = SYNTHESIS THEN "analogical"
  ELSE "deductive"

\* Mutant: the Synthesis rule is missing (Synthesis falls to the default)
analyzeThoughtPattern_NoSynthesis(thought) ==
  IF thought.stage = ANALYSIS \/ thought.stage = EVALUATION THEN "deductive"
  ELSE IF thought.stage = IDEATION THEN "creative"
  ELSE "deductive"

analyzeThoughtPattern(thought) ==
  IF thought.stage = ANALYSIS \/ thought.stage = EVALUATION THEN "deductive"
  ELSE IF thought.stage = IDEATION THEN "creative"
  ELSE IF thought.stage = SYNTHESIS THEN "inductive"
  ELSE "deductive"

\* Mutant: a tag the thought carries already is not pushed again
applyReasoningStrategy_Dedup(thought) ==
  LET pattern == analyzeThoughtPattern(thought) IN
  IF \E i \in DOMAIN thought.tags : thought.tags[i] = reasoningPatterns[pattern]
  THEN thought
  ELSE [thought EXCEPT !.tags = Append(@, reasoningPatterns[pattern])]

\* The thought after thought.tags.push(...); the object itself is changed
applyReasoningStrategy(thought) ==
  LET pattern == analyzeThoughtPattern(thought) IN
  [thought EXCEPT !.tags = Append(@, reasoningPatterns[pattern])]

---------------------------------------------------------------------------
(* JS numbers: IEEE 754 binary64 arithmetic on non-negative finite values *)

\* Op applied to the value of e, to the values of e and f: the value is
\* computed once, however often Op uses it
Bind(e, Op(_)) == CHOOSE r \in {Op(v) : v \in {e}} : TRUE
Bind2(e, f, Op(_, _)) == CHOOSE r \in {Op(v, w) : v \in {e}, w \in {f}} : TRUE

\* A natural number is a little-endian sequence of limbs in base LimbBase
\* without leading zero limbs; <<>> is 0
LimbBits == 14
LimbBase == 2^LimbBits

RECURSIVE TrimLimbs(_)
TrimLimbs(a) ==
  Bind(a, LAMBDA v :
    IF v # <<>> /\ v[Len(v)] = 0 THEN TrimLimbs(SubSeq(v, 1, Len(v) - 1)) ELSE v)

RECURSIVE ToLimbs(_)
ToLimbs(n) ==
  Bind(n, LAMBDA v :
    IF v = 0 THEN <<>> ELSE <<v % LimbBase>> \o ToLimbs(v \div LimbBase))

LimbAt(a, i) == IF i <= Len(a) THEN a[i] ELSE 0

RECURSIVE AddLimbsFrom(_, _, _, _)
AddLimbsFrom(a, b, i, carry) ==
  IF i > Len(a) /\ i > Len(b)
  THEN ToLimbs(carry)
  ELSE Bind(LimbAt(a, i) + LimbAt(b, i) + carry, LAMBDA s :
         <<s % LimbBase>> \o AddLimbsFrom(a, b, i + 1, s \div LimbBase))

AddLimbs(a, b) == Bind2(a, b, LAMBDA v, w : AddLimbsFrom(v, w, 1, 0))

RECURSIVE TimesLimbFrom(_, _, _, _)
TimesLimbFrom(a, k, i, carry) ==
  IF i > Len(a)
  THEN ToLimbs(carry)
  ELSE Bind(a[i] * k + carry, LAMBDA s :
         <<s % LimbBase>> \o TimesLimbFrom(a, k, i + 1, s \div LimbBase))

\* a * k for one limb k
TimesLimb(a, k) == Bind2(a, k, LAMBDA v, w : TrimLimbs(TimesLimbFrom(v, w, 1, 0)))

RECURSIVE TimesLimbsFrom(_, _, _)
TimesLimbsFrom(a, b, i) ==
  IF i > Len(b)
  THEN <<>>
  ELSE AddLimbs(TimesLimb(a, b[i]), <<0>> \o TimesLimbsFrom(a, b, i + 1))

TimesLimbs(a, b) == Bind2(a, b, LAMBDA v, w : TrimLimbs(TimesLimbsFrom(v, w, 1)))

RECURSIVE DivideLimbsFrom(_, _, _, _)
DivideLimbsFrom(a, d, i, r) ==
  IF i = 0
  THEN [q |-> <<>>, r |-> r]
  ELSE Bind(r * LimbBase + a[i], LAMBDA cur :
         Bind(DivideLimbsFrom(a, d, i - 1, cur % d), LAMBDA rest :
           [q |-> Append(rest.q, cur \div d), r |-> rest.r]))

\* quotient and remainder of a by a divisor d <= LimbBase
DivideLimbs(a, d) ==
  Bind2(a, d, LAMBDA v, w :
    Bind(DivideLimbsFrom(v, w, Len(v), 0), LAMBDA qr :
      [q |-> TrimLimbs(qr.q), r |-> qr.r]))

RECURSIVE BitsOf(_)
BitsOf(n) == Bind(n, LAMBDA v : IF v = 0 THEN 0 ELSE 1 + BitsOf(v \div 2))

BitLength(a) ==
  Bind(a, LAMBDA v :
    IF v = <<>> THEN 0 ELSE (Len(v) - 1) * LimbBits + BitsOf(v[Len(v)]))

\* a * 2^s
ShiftLeft(a, s) ==
  Bind(s, LAMBDA w :
    TrimLimbs([i \in 1..(w \div LimbBits) |-> 0] \o TimesLimb(a, 2^(w % LimbBits))))

\* floor(a / 2^s), and whether a bit was shifted out
ShiftRight(a, s) ==
  Bind2(a, s \div LimbBits, LAMBDA v, whole :
    Bind(DivideLimbs(SubSeq(v, whole + 1, Len(v)), 2^(s % LimbBits)), LAMBDA qr :
      [q |-> qr.q,
       sticky |-> qr.r # 0 \/ \E i \in 1..whole : LimbAt(v, i) # 0]))

\* A number is zero or m * 2^e with a significand m of exactly
\* SignificandBits bits
SignificandBits == 53
Zero == [m |-> <<>>, e |-> 0]

\* The significand m, or m / 2 when rounding up has carried into a further bit
Renormalized(m, e) ==
  IF BitLength(m) > SignificandBits
  THEN [m |-> DivideLimbs(m, 2).q, e |-> e + 1]
  ELSE [m |-> m, e |-> e]

\* Round to nearest, ties to even: q is the number n without its last s
\* bits, guard the first of those bits and rest whether any bit after it is set
RoundedToEven(q, guard, rest, e) ==
  IF guard = 1 /\ (rest \/ q[1] % 2 = 1)
  THEN Bind(AddLimbs(q, <<1>>), LAMBDA m : Renormalized(m, e))
  ELSE [m |-> q, e |-> e]

\* The number nearest to (n + f) * 2^e, where 0 <= f < 1 and f # 0 exactly
\* when sticky (then n has more bits than a significand)
RoundToNumber(n, e, sticky) ==
  Bind2(n, BitLength(n), LAMBDA v, bits :
    IF v = <<>> THEN Zero
    ELSE IF bits <= SignificandBits
    THEN [m |-> ShiftLeft(v, SignificandBits - bits), e |-> e - (SignificandBits - bits)]
    ELSE Bind(ShiftRight(v, bits - SignificandBits - 1), LAMBDA withGuard :
           Bind(DivideLimbs(withGuard.q, 2).q, LAMBDA q :
             RoundedToEven(q, withGuard.q[1] % 2, sticky \/ withGuard.sticky,
                           e + (bits - SignificandBits)))))

\* The value of the decimal literal n/d (d a power of ten)
NumberLiteral(n, d) ==
  Bind(DivideLimbs(ShiftLeft(ToLimbs(n), 5 * LimbBits), d), LAMBDA qr :
    RoundToNumber(qr.q, 0 - 5 * LimbBits, qr.r # 0))

\* x * y
NumberTimes(x, y) ==
  Bind2(x, y, LAMBDA v, w :
    IF v.m = <<>> \/ w.m = <<>> THEN Zero
    ELSE RoundToNumber(TimesLimbs(v.m, w.m), v.e + w.e, FALSE))

\* x + y
NumberPlus(x, y) ==
  Bind2(x, y, LAMBDA v, w :
    IF v.m = <<>> THEN w
    ELSE IF w.m = <<>> THEN v
    ELSE Bind(IF v.e < w.e THEN v.e ELSE w.e, LAMBDA e :
           RoundToNumber(AddLimbs(ShiftLeft(v.m, v.e - e), ShiftLeft(w.m, w.e - e)),
                         e, FALSE)))

\* x / k for an array length k >= 1
NumberDividedBy(x, k) ==
  Bind(x, LAMBDA v :
    IF v.m = <<>> THEN Zero
    ELSE Bind(DivideLimbs(ShiftLeft(v.m, 2 * LimbBits), k), LAMBDA qr :
           RoundToNumber(qr.q, v.e - 2 * LimbBits, qr.r # 0)))

RECURSIVE LimbsLessFrom(_, _, _)
LimbsLessFrom(a, b, i) ==
  IF i = 0 THEN FALSE
  ELSE IF a[i] # b[i] THEN a[i] < b[i]
  ELSE LimbsLessFrom(a, b, i - 1)

\* x < y
NumberLess(x, y) ==
  Bind2(x, y, LAMBDA v, w :
    IF w.m = <<>> THEN FALSE
    ELSE IF v.m = <<>> THEN TRUE
    ELSE IF v.e # w.e THEN v.e < w.e
    ELSE LimbsLessFrom(v.m, w.m, Len(v.m)))

---------------------------------------------------------------------------
(* Metacognitive monitor: a score is the decimal literal score/100, a      *)
(* metric is the JS number the code computes from it                       *)

\* this.qualityMetrics
qualityMetrics ==
  [coherence |-> Zero, depth |-> Zero, creativity |-> Zero,
   practicality |-> Zero, relevance |-> Zero, clarity |-> Zero]

\* The JS number of a score that passed validateThought
ScoreNumber == [n \in 0..100 |-> NumberLiteral(n, 100)]

\* The factors of the basic metric calculation, in hundredths:
\* metrics.depth = baseScore * 0.8, metrics.creativity = baseScore * 0.7, ...
MetricFactor ==
  [depth |-> 80, creativity |-> 70, practicality |-> 90, relevance |-> 85, clarity |-> 95]

\* metrics.coherence = baseScore, and every other metric baseScore times its factor
BasicMetrics(baseScore) ==
  Bind(baseScore, LAMBDA v :
    [m \in DOMAIN qualityMetrics |->
       IF m = "coherence" THEN v
       ELSE NumberTimes(v, NumberLiteral(MetricFactor[m], 100))])

\* An optional score of two decimals
ScoreOptions == {None} \cup {Some(n) : n \in 0..100}

\* const metrics = { ...this.qualityMetrics } and, if (thought.score), the
\* basic metric calculation: computed once for every score
CalculatedMetrics ==
  [score \in ScoreOptions |->
     IF TruthyNumber(score) THEN BasicMetrics(ScoreNumber[score[1]]) ELSE qualityMetrics]

\* metrics.creativity *= 1.2 and metrics.practicality *= 1.2 on the
\* calculated metrics: computed once for every score
AdjustedMetric ==
  [metric \in {"creativity", "practicality"}, score \in ScoreOptions |->
     NumberTimes(CalculatedMetrics[score][metric], NumberLiteral(120, 100))]

\* Mutant: an adjusted metric is clamped to 1
evaluateThoughtQuality_metrics_Clamped(thought) ==
  Bind2(CalculatedMetrics[thought.score], ScoreNumber[100], LAMBDA metrics, one :
    IF thought.stage = IDEATION
    THEN [metrics EXCEPT !.creativity =
            Bind(AdjustedMetric["creativity", thought.score], LAMBDA adjusted :
              IF NumberLess(one, adjusted) THEN one ELSE adjusted)]
    ELSE IF thought.stage = EVALUATION
    THEN [metrics EXCEPT !.practicality =
            Bind(AdjustedMetric["practicality", thought.score], LAMBDA adjusted :
              IF NumberLess(one, adjusted) THEN one ELSE adjusted)]
    ELSE metrics)

evaluateThoughtQuality_metrics(thought) ==
  Bind(CalculatedMetrics[thought.score], LAMBDA metrics :
    IF thought.stage = IDEATION
    THEN [metrics EXCEPT !.creativity = AdjustedMetric["creativity", thought.score]]
    ELSE IF thought.stage = EVALUATION
    THEN [metrics EXCEPT !.practicality = AdjustedMetric["practicality", thought.score]]
    ELSE metrics)

MetricOrder == <<"coherence", "depth", "creativity", "practicality", "relevance", "clarity">>

Suggestion ==
  [coherence    |-> "Consider strengthening logical connections",
   depth        |-> "Try exploring the concept more thoroughly",
   creativity   |-> "Consider adding more innovative elements",
   practicality |-> "Focus on practical applications",
   relevance    |-> "Ensure alignment with main objectives",
   clarity      |-> "Try expressing ideas more clearly"]

\* The literal 0.7 of `value < 0.7`
SuggestionThreshold == NumberLiteral(70, 100)

\* Mutant: a metric equal to the threshold gets a suggestion too
generateImprovementSuggestions_AtMost(metrics) ==
  Bind2(metrics, SuggestionThreshold, LAMBDA v, threshold :
    Bind(SelectSeq(MetricOrder, LAMBDA m : NumberLess(v[m], threshold) \/ v[m] = threshold),
         LAMBDA picked : [i \in DOMAIN picked |-> Suggestion[picked[i]]]))

generateImprovementSuggestions(metrics) ==
  Bind2(metrics, SuggestionThreshold, LAMBDA v, threshold :
    Bind(SelectSeq(MetricOrder, LAMBDA m : NumberLess(v[m], threshold)),
         LAMBDA picked : [i \in DOMAIN picked |-> Suggestion[picked[i]]]))

suggestImprovements(thought) ==
  generateImprovementSuggestions(evaluateThoughtQuality_metrics(thought))

---------------------------------------------------------------------------
(* Thinking session: lookups and the envelopes of the tool operations *)

\* Mutant: thoughtHistory.findLastIndex, the newest entry with the number
findIndex_Last(history, objects, n) ==
  LET hits == {i \in DOMAIN history : objects[history[i]].thoughtNumber = n} IN
  IF hits = {} THEN 0 ELSE CHOOSE i \in hits : \A j \in hits : j <= i

\* thoughtHistory.findIndex(t => t.thoughtNumber === n), 0 when there is none
findIndex(history, objects, n) ==
  LET hits == {i \in DOMAIN history : objects[history[i]].thoughtNumber = n} IN
  IF hits = {} THEN 0 ELSE Min(hits)

\* Mutant: only the newest entry of the history is looked at
findThoughtById_NewestOnly(history, objects, thoughtId) ==
  IF history # <<>> /\ objects[history[Len(history)]].thoughtNumber = thoughtId
  THEN Some(history[Len(history)]) ELSE None

\* Mutant: when no entry carries the number, the first entry is returned
findThoughtById_FallbackFirst(history, objects, thoughtId) ==
  IF findIndex(history, objects, thoughtId) # 0
  THEN Some(history[findIndex(history, objects, thoughtId)])
  ELSE IF history # <<>> THEN Some(history[1]) ELSE None

\* The reference of the first history entry with that number, or undefined
findThoughtById(history, objects, thoughtId) ==
  IF findIndex(history, objects, thoughtId) = 0 THEN None
  ELSE Some(history[findIndex(history, objects, thoughtId)])

\* thoughtHistory[idx] = updatedThought, idx the first entry with its number
updateThought(history, objects, ref) ==
  LET idx == findIndex(history, objects, objects[ref].thoughtNumber) IN
  IF idx # 0 THEN [history EXCEPT ![idx] = ref] ELSE history

\* What a call gives its caller: raised is TRUE when an exception leaves the
\* operation; body is the parsed JSON text of content[0]
Success(body) == [raised |-> FALSE, isError |-> FALSE, body |-> body]

\* Mutant: the catch block rethrows instead of building the failure envelope
handleError_Rethrow(e) ==
  [raised |-> TRUE, isError |-> FALSE, body |-> [error |-> e.message]]

handleError(e) ==
  [raised  |-> FALSE,
   isError |-> TRUE,
   body    |-> [error |-> e.message, status |-> "failed", errorType |-> e.ctor]]

NotFound(thoughtId) ==
  Throw("Error", Msg(<<"Thought", "with", "ID", "${thought_id}", "not", "found">>,
                     <<thoughtId>>))

ParentNotFound(thoughtId) ==
  Throw("Error", Msg(<<"Parent", "thought", "with", "ID", "${parent_thought_id}",
                       "not", "found">>, <<thoughtId>>))

\* if (t.branchFromThought && t.branchId) { if (!branches[id]) branches[id] = [];
\*                                          branches[id].push(t) }
HandleBranching(index, ref, thought) ==
  IF TruthyNumber(thought.branchFromThought) /\ TruthyString(thought.branchId)
  THEN LET k == thought.branchId[1]
           made == IF ObjectGet(index, k).kind = "undefined"
                   THEN ObjectCreate(index, k) ELSE index
       IN IF ObjectGet(made, k).kind = "array"
          THEN [threw |-> FALSE, branches |-> ObjectPush(made, k, ref)]
          ELSE \* an inherited member has no push
               [threw    |-> TRUE,
                branches |-> made,
                error    |-> [ctor |-> "TypeError",
                              message |-> Msg(<<"this.branches[thoughtData.branchId].push",
                                                "is", "not", "a", "function">>, <<>>)]]
  ELSE [threw |-> FALSE, branches |-> index]

---------------------------------------------------------------------------
(* The tool operations *)

captureThought(inputData) ==
  LET v == validateThoughtData(inputData) IN
  IF v.threw
  THEN /\ response' = handleError(v.error)
       /\ UNCHANGED <<stores, captured, accepted>>
  ELSE LET thoughtData == v.value
           ref == Len(heap) + 1
           mem == consolidateMemory(shortTermBuffer, longTermStorage, ref, thoughtData)
           br == HandleBranching(branches, ref, thoughtData)
       IN /\ heap' = Append(heap, thoughtData)
          /\ shortTermBuffer' = mem.shortTermBuffer
          /\ longTermStorage' = mem.longTermStorage
          /\ thoughtHistory' = Append(thoughtHistory, ref)
          /\ branches' = br.branches
          /\ UNCHANGED activeBranchId
          /\ IF br.threw
             THEN /\ response' = handleError(br.error)
                  /\ UNCHANGED <<captured, accepted>>
             ELSE /\ response' =
                       Success([status |-> "success",
                                thoughtCaptured |->
                                  [thoughtNumber |-> thoughtData.thoughtNumber,
                                   stage |-> thoughtData.stage,
                                   branch |-> thoughtData.branchId]])
                  /\ captured' = captured \cup {thoughtData.thoughtNumber}
                  /\ accepted' = Append(accepted, ref)

\* Mutant: the tagged thought is a new object that takes the place of the
\* old one in the history only
applyReasoning_Copy(input) ==
  LET thought == findThoughtById(thoughtHistory, heap, input.thought_id) IN
  IF ~IsDefined(thought)
  THEN /\ response' = handleError(NotFound(input.thought_id).error)
       /\ UNCHANGED <<stores, captured, accepted>>
  ELSE LET updatedThought == applyReasoningStrategy(heap[thought[1]])
           objects == Append(heap, updatedThought)
       IN /\ heap' = objects
          /\ thoughtHistory' = updateThought(thoughtHistory, objects, Len(objects))
          /\ response' =
               Success([status |-> "success",
                        reasoningApplied |-> [thoughtNumber |-> updatedThought.thoughtNumber,
                                              pattern |-> analyzeThoughtPattern(updatedThought),
                                              tags |-> updatedThought.tags]])
          /\ UNCHANGED <<branches, activeBranchId, shortTermBuffer, longTermStorage, captured, accepted>>

\* Mutant: the pattern reported is also the tag pushed
applyReasoning_OverrideTag(input) ==
  LET thought == findThoughtById(thoughtHistory, heap, input.thought_id) IN
  IF ~IsDefined(thought)
  THEN /\ response' = handleError(NotFound(input.thought_id).error)
       /\ UNCHANGED <<stores, captured, accepted>>
  ELSE LET ref == thought[1]
           pattern == IF TruthyString(input.reasoning_type)
                      THEN input.reasoning_type[1]
                      ELSE analyzeThoughtPattern(heap[ref])
           updatedThought == [heap[ref] EXCEPT !.tags = Append(@, pattern)]
           objects == [heap EXCEPT ![ref] = updatedThought]
       IN /\ heap' = objects
          /\ thoughtHistory' = updateThought(thoughtHistory, objects, ref)
          /\ response' =
               Success([status |-> "success",
                        reasoningApplied |-> [thoughtNumber |-> updatedThought.thoughtNumber,
                                              pattern |-> pattern,
                                              tags |-> updatedThought.tags]])
          /\ UNCHANGED <<branches, activeBranchId, shortTermBuffer, longTermStorage, captured, accepted>>

applyReasoning(input) ==
  LET thought == findThoughtById(thoughtHistory, heap, input.thought_id) IN
  IF ~IsDefined(thought)
  THEN /\ response' = handleError(NotFound(input.thought_id).error)
       /\ UNCHANGED <<stores, captured, accepted>>
  ELSE LET ref == thought[1]
           pattern == IF TruthyString(input.reasoning_type)
                      THEN input.reasoning_type[1]
                      ELSE analyzeThoughtPattern(heap[ref])
           updatedThought == applyReasoningStrategy(heap[ref])
           objects == [heap EXCEPT ![ref] = updatedThought]
       IN /\ heap' = objects
          /\ thoughtHistory' = updateThought(thoughtHistory, objects, ref)
          /\ response' =
               Success([status |-> "success",
                        reasoningApplied |-> [thoughtNumber |-> updatedThought.thoughtNumber,
                                              pattern |-> pattern,
                                              tags |-> updatedThought.tags]])
          /\ UNCHANGED <<branches, activeBranchId, shortTermBuffer, longTermStorage, captured, accepted>>

\* What evaluateThoughtQuality answers for input in the session (history, objects)
evaluateThoughtQuality_envelope(history, objects, input) ==
  LET thought == findThoughtById(history, objects, input.thought_id) IN
  IF ~IsDefined(thought)
  THEN handleError(NotFound(input.thought_id).error)
  ELSE LET metrics == evaluateThoughtQuality_metrics(objects[thought[1]]) IN
       Success([status |-> "success",
                evaluation |-> [thoughtNumber |-> objects[thought[1]].thoughtNumber,
                                qualityMetrics |-> metrics,
                                suggestedImprovements |->
                                  generateImprovementSuggestions(metrics)]])

evaluateThoughtQuality(input) ==
  /\ response' = evaluateThoughtQuality_envelope(thoughtHistory, heap, input)
  /\ UNCHANGED <<stores, captured, accepted>>

Projection(objects, refs) ==
  [i \in DOMAIN refs |-> [thoughtNumber |-> objects[refs[i]].thoughtNumber,
                          stage |-> objects[refs[i]].stage,
                          tags |-> objects[refs[i]].tags]]

\* Mutant: a retrieval refreshes the thought it was asked about in the
\* short-term buffer
retrieveRelevantThoughts_Refreshing(input) ==
  LET thought == findThoughtById(thoughtHistory, heap, input.thought_id) IN
  /\ IF ~IsDefined(thought)
     THEN /\ response' = handleError(NotFound(input.thought_id).error)
          /\ UNCHANGED shortTermBuffer
     ELSE LET relatedThoughts ==
                MemoryManager_retrieveRelevantThoughts(longTermStorage, heap, heap[thought[1]])
          IN /\ response' =
                  Success([status |-> "success",
                           retrieval |-> [thoughtNumber |-> heap[thought[1]].thoughtNumber,
                                          relatedThoughtsCount |-> Len(relatedThoughts),
                                          relatedThoughts |-> Projection(heap, relatedThoughts)]])
             /\ shortTermBuffer' = Append(shortTermBuffer, thought[1])
  /\ UNCHANGED <<heap, thoughtHistory, branches, activeBranchId, longTermStorage,
                 captured, accepted>>

retrieveRelevantThoughts(input) ==
  LET thought == findThoughtById(thoughtHistory, heap, input.thought_id) IN
  /\ IF ~IsDefined(thought)
     THEN response' = handleError(NotFound(input.thought_id).error)
     ELSE LET relatedThoughts ==
                MemoryManager_retrieveRelevantThoughts(longTermStorage, heap, heap[thought[1]])
          IN response' =
               Success([status |-> "success",
                        retrieval |-> [thoughtNumber |-> heap[thought[1]].thoughtNumber,
                                       relatedThoughtsCount |-> Len(relatedThoughts),
                                       relatedThoughts |-> Projection(heap, relatedThoughts)]])
  /\ UNCHANGED <<stores, captured, accepted>>

\* Mutant: the branch asked for becomes the active one on every call
branchThought_AlwaysActive(input) ==
  LET parentThought == findThoughtById(thoughtHistory, heap, input.parent_thought_id) IN
  IF ~IsDefined(parentThought)
  THEN /\ response' = handleError(ParentNotFound(input.parent_thought_id).error)
       /\ UNCHANGED <<stores, captured, accepted>>
  ELSE LET create == ObjectGet(branches, input.branch_id).kind = "undefined" IN
       /\ branches' = IF create THEN ObjectCreate(branches, input.branch_id) ELSE branches
       /\ activeBranchId' = Some(input.branch_id)
       /\ response' =
            Success([status |-> "success",
                     branching |-> [parentThoughtNumber |-> heap[parentThought[1]].thoughtNumber,
                                    branchId |-> input.branch_id,
                                    isActive |-> TRUE]])
       /\ UNCHANGED <<heap, thoughtHistory, shortTermBuffer, longTermStorage, captured, accepted>>

\* Mutant: the parent thought is pushed into the branch list
branchThought_PushParent(input) ==
  LET parentThought == findThoughtById(thoughtHistory, heap, input.parent_thought_id) IN
  IF ~IsDefined(parentThought)
  THEN /\ response' = handleError(ParentNotFound(input.parent_thought_id).error)
       /\ UNCHANGED <<stores, captured, accepted>>
  ELSE LET create == ObjectGet(branches, input.branch_id).kind = "undefined"
           active == IF create THEN Some(input.branch_id) ELSE activeBranchId
           made == IF create THEN ObjectCreate(branches, input.branch_id) ELSE branches
       IN /\ branches' = IF ObjectGet(made, input.branch_id).kind = "array"
                      THEN ObjectPush(made, input.branch_id, parentThought[1]) ELSE made
          /\ activeBranchId' = active
          /\ response' =
               Success([status |-> "success",
                        branching |-> [parentThoughtNumber |-> heap[parentThought[1]].thoughtNumber,
                                       branchId |-> input.branch_id,
                                       isActive |-> active = Some(input.branch_id)]])
          /\ UNCHANGED <<heap, thoughtHistory, shortTermBuffer, longTermStorage, captured, accepted>>

branchThought(input) ==
  LET parentThought == findThoughtById(thoughtHistory, heap, input.parent_thought_id) IN
  IF ~IsDefined(parentThought)
  THEN /\ response' = handleError(ParentNotFound(input.parent_thought_id).error)
       /\ UNCHANGED <<stores, captured, accepted>>
  ELSE LET create == ObjectGet(branches, input.branch_id).kind = "undefined"
           active == IF create THEN Some(input.branch_id) ELSE activeBranchId
       IN /\ branches' = IF create THEN ObjectCreate(branches, input.branch_id) ELSE branches
          /\ activeBranchId' = active
          /\ response' =
               Success([status |-> "success",
                        branching |-> [parentThoughtNumber |-> heap[parentThought[1]].thoughtNumber,
                                       branchId |-> input.branch_id,
                                       isActive |-> active = Some(input.branch_id)]])
          /\ UNCHANGED <<heap, thoughtHistory, shortTermBuffer, longTermStorage, captured, accepted>>

\* Mutant: the related thoughts are retrieved before the thought is consolidated
composedThink_RetrieveFirst(inputData) ==
  LET v == validateThoughtData(inputData) IN
  IF v.threw
  THEN /\ response' = handleError(v.error)
       /\ UNCHANGED <<stores, captured, accepted>>
  ELSE LET enhancedThought == applyReasoningStrategy(v.value)
           ref == Len(heap) + 1
           objects == Append(heap, enhancedThought)
           mem == consolidateMemory(shortTermBuffer, longTermStorage, ref, enhancedThought)
           improvements == suggestImprovements(enhancedThought)
           relatedThoughts ==
             MemoryManager_retrieveRelevantThoughts(longTermStorage, objects, enhancedThought)
           history == Append(thoughtHistory, ref)
           br == HandleBranching(branches, ref, enhancedThought)
       IN /\ heap' = objects
          /\ shortTermBuffer' = mem.shortTermBuffer
          /\ longTermStorage' = mem.longTermStorage
          /\ thoughtHistory' = history
          /\ branches' = br.branches
          /\ UNCHANGED activeBranchId
          /\ IF br.threw
             THEN /\ response' = handleError(br.error)
                  /\ UNCHANGED <<captured, accepted>>
             ELSE /\ response' =
                       Success(
                         [thoughtAnalysis |->
                           [currentThought |->
                              [thoughtNumber |-> enhancedThought.thoughtNumber,
                               totalThoughts |-> enhancedThought.totalThoughts,
                               stage |-> enhancedThought.stage,
                               score |-> enhancedThought.score,
                               tags |-> enhancedThought.tags,
                               branch |-> enhancedThought.branchId],
                            analysis |->
                              [relatedThoughtsCount |-> Len(relatedThoughts),
                               qualityMetrics |-> evaluateThoughtQuality_metrics(enhancedThought),
                               suggestedImprovements |-> improvements],
                            context |->
                              [activeBranches |-> ObjectOwnKeys(br.branches),
                               thoughtHistoryLength |-> Len(history),
                               currentStage |-> enhancedThought.stage]]])
                  /\ captured' = captured \cup {enhancedThought.thoughtNumber}
                  /\ accepted' = Append(accepted, ref)

\* Mutant: the thought is stored as it was validated, without the pattern tag
composedThink_Untagged(inputData) == captureThought(inputData)

\* Mutant: the active branches are read before the branch bookkeeping of the call
composedThink_StaleContext(inputData) ==
  LET v == validateThoughtData(inputData) IN
  IF v.threw
  THEN /\ response' = handleError(v.error)
       /\ UNCHANGED <<stores, captured, accepted>>
  ELSE LET enhancedThought == applyReasoningStrategy(v.value)
           ref == Len(heap) + 1
           objects == Append(heap, enhancedThought)
           mem == consolidateMemory(shortTermBuffer, longTermStorage, ref, enhancedThought)
           improvements == suggestImprovements(enhancedThought)
           relatedThoughts ==
             MemoryManager_retrieveRelevantThoughts(mem.longTermStorage, objects, enhancedThought)
           history == Append(thoughtHistory, ref)
           br == HandleBranching(branches, ref, enhancedThought)
       IN /\ heap' = objects
          /\ shortTermBuffer' = mem.shortTermBuffer
          /\ longTermStorage' = mem.longTermStorage
          /\ thoughtHistory' = history
          /\ branches' = br.branches
          /\ UNCHANGED activeBranchId
          /\ IF br.threw
             THEN /\ response' = handleError(br.error)
                  /\ UNCHANGED <<captured, accepted>>
             ELSE /\ response' =
                       Success(
                         [thoughtAnalysis |->
                           [currentThought |->
                              [thoughtNumber |-> enhancedThought.thoughtNumber,
                               totalThoughts |-> enhancedThought.totalThoughts,
                               stage |-> enhancedThought.stage,
                               score |-> enhancedThought.score,
                               tags |-> enhancedThought.tags,
                               branch |-> enhancedThought.branchId],
                            analysis |->
                              [relatedThoughtsCount |-> Len(relatedThoughts),
                               qualityMetrics |-> evaluateThoughtQuality_metrics(enhancedThought),
                               suggestedImprovements |-> improvements],
                            context |->
                              [activeBranches |-> ObjectOwnKeys(branches),
                               thoughtHistoryLength |-> Len(history),
                               currentStage |-> enhancedThought.stage]]])
                  /\ captured' = captured \cup {enhancedThought.thoughtNumber}
                  /\ accepted' = Append(accepted, ref)

composedThink(inputData) ==
  LET v == validateThoughtData(inputData) IN
  IF v.threw
  THEN /\ response' = handleError(v.error)
       /\ UNCHANGED <<stores, captured, accepted>>
  ELSE LET enhancedThought == applyReasoningStrategy(v.value)
           ref == Len(heap) + 1
           objects == Append(heap, enhancedThought)
           mem == consolidateMemory(shortTermBuffer, longTermStorage, ref, enhancedThought)
           improvements == suggestImprovements(enhancedThought)
           relatedThoughts ==
             MemoryManager_retrieveRelevantThoughts(mem.longTermStorage, objects, enhancedThought)
           history == Append(thoughtHistory, ref)
           br == HandleBranching(branches, ref, enhancedThought)
       IN /\ heap' = objects
          /\ shortTermBuffer' = mem.shortTermBuffer
          /\ longTermStorage' = mem.longTermStorage
          /\ thoughtHistory' = history
          /\ branches' = br.branches
          /\ UNCHANGED activeBranchId
          /\ IF br.threw
             THEN /\ response' = handleError(br.error)
                  /\ UNCHANGED <<captured, accepted>>
             ELSE /\ response' =
                       Success(
                         [thoughtAnalysis |->
                           [currentThought |->
                              [thoughtNumber |-> enhancedThought.thoughtNumber,
                               totalThoughts |-> enhancedThought.totalThoughts,
                               stage |-> enhancedThought.stage,
                               score |-> enhancedThought.score,
                               tags |-> enhancedThought.tags,
                               branch |-> enhancedThought.branchId],
                            analysis |->
                              [relatedThoughtsCount |-> Len(relatedThoughts),
                               qualityMetrics |-> evaluateThoughtQuality_metrics(enhancedThought),
                               suggestedImprovements |-> improvements],
                            context |->
                              [activeBranches |-> ObjectOwnKeys(br.branches),
                               thoughtHistoryLength |-> Len(history),
                               currentStage |-> enhancedThought.stage]]])
                  /\ captured' = captured \cup {enhancedThought.thoughtNumber}
                  /\ accepted' = Append(accepted, ref)

\* Mutant: the active branch survives the clearing
clearHistory_KeepsActive ==
  /\ heap' = <<>>
  /\ thoughtHistory' = <<>>
  /\ branches' = <<>>
  /\ shortTermBuffer' = <<>>
  /\ longTermStorage' = <<>>
  /\ UNCHANGED activeBranchId
  /\ captured' = {}
  /\ accepted' = <<>>
  /\ response' = Success([status |-> "success", message |-> "Thinking history cleared"])

\* clearHistory() and the envelope the clear_thinking_history tool wraps it in
clearHistory ==
  /\ heap' = <<>>
  /\ thoughtHistory' = <<>>
  /\ branches' = <<>>
  /\ shortTermBuffer' = <<>>
  /\ longTermStorage' = <<>>
  /\ activeBranchId' = None
  /\ captured' = {}
  /\ accepted' = <<>>
  /\ response' = Success([status |-> "success", message |-> "Thinking history cleared"])

\* `x` as a condition for an optional boolean: undefined and false are falsy
TruthyBoolean(o) == IsDefined(o) /\ o[1]

\* t.score || 0
ScoreOrZero(thought) ==
  IF TruthyNumber(thought.score) THEN ScoreNumber[thought.score[1]] ELSE Zero

\* thoughts.reduce((sum, t) => sum + (t.score || 0), 0)
RECURSIVE SumOfScores(_, _)
SumOfScores(objects, refs) ==
  IF refs = <<>> THEN Zero
  ELSE NumberPlus(SumOfScores(objects, SubSeq(refs, 1, Len(refs) - 1)),
                  ScoreOrZero(objects[refs[Len(refs)]]))

\* The keys of `stages`: the stages of the history, each at its first thought
StageKeys(history, objects) ==
  LET first(i) == \A j \in 1..(i - 1) : objects[history[j]].stage # objects[history[i]].stage
      at == SelectSeq([i \in DOMAIN history |-> i], first)
  IN [k \in DOMAIN at |-> objects[history[at[k]]].stage]

\* Mutant: the mean of a stage is taken over its scored thoughts only
generateSummary_ScoredOnly(history, objects, index) ==
  IF Len(history) = 0
  THEN [summary |-> [type |-> "string", text |-> "No thoughts recorded yet"]]
  ELSE LET keys == StageKeys(history, objects)
           stages(k) == SelectSeq(history, LAMBDA ref : objects[ref].stage = keys[k])
           scored(k) == SelectSeq(stages(k), LAMBDA ref : IsDefined(objects[ref].score))
       IN [summary |->
             [type          |-> "object",
              totalThoughts |-> Len(history),
              stages        |-> [k \in DOMAIN keys |->
                                   [stage        |-> keys[k],
                                    count        |-> Len(stages(k)),
                                    averageScore |->
                                      NumberDividedBy(SumOfScores(objects, scored(k)),
                                                      Len(scored(k)))]],
              branches      |-> [i \in DOMAIN index |->
                                   [branchId |-> index[i].key,
                                    size     |-> Len(index[i].thoughts)]],
              revisions     |-> Len(SelectSeq(history,
                                    LAMBDA ref : TruthyBoolean(objects[ref].isRevision))),
              timeline      |-> [i \in DOMAIN history |->
                                   [number |-> objects[history[i]].thoughtNumber,
                                    stage  |-> objects[history[i]].stage,
                                    score  |-> objects[history[i]].score,
                                    branch |-> objects[history[i]].branchId]]]]

\* generateSummary(): the value that is serialised; the value of "summary" is
\* a string for an empty history and an object otherwise
generateSummary(history, objects, index) ==
  IF Len(history) = 0
  THEN [summary |-> [type |-> "string", text |-> "No thoughts recorded yet"]]
  ELSE LET keys == StageKeys(history, objects)
           stages(k) == SelectSeq(history, LAMBDA ref : objects[ref].stage = keys[k])
       IN [summary |->
             [type          |-> "object",
              totalThoughts |-> Len(history),
              stages        |-> [k \in DOMAIN keys |->
                                   [stage        |-> keys[k],
                                    count        |-> Len(stages(k)),
                                    averageScore |->
                                      NumberDividedBy(SumOfScores(objects, stages(k)),
                                                      Len(stages(k)))]],
              branches      |-> [i \in DOMAIN index |->
                                   [branchId |-> index[i].key,
                                    size     |-> Len(index[i].thoughts)]],
              revisions     |-> Len(SelectSeq(history,
                                    LAMBDA ref : TruthyBoolean(objects[ref].isRevision))),
              timeline      |-> [i \in DOMAIN history |->
                                   [number |-> objects[history[i]].thoughtNumber,
                                    stage  |-> objects[history[i]].stage,
                                    score  |-> objects[history[i]].score,
                                    branch |-> objects[history[i]].branchId]]]]

\* The get_thinking_summary tool: the text of generateSummary() in an envelope
getThinkingSummary ==
  /\ response' = Success(generateSummary(thoughtHistory, heap, branches))
  /\ UNCHANGED <<stores, captured, accepted>>

\* new EnhancedSequentialThinkingServer(): nothing stored, no call received yet
Init ==
  /\ heap = <<>>
  /\ thoughtHistory = <<>>
  /\ branches = <<>>
  /\ activeBranchId = None
  /\ shortTermBuffer = <<>>
  /\ longTermStorage = <<>>
  /\ captured = {}
  /\ accepted = <<>>
  /\ request = [op |-> "none", input |-> <<>>]
  /\ response = Success([status |-> "none"])
  /\ eventLoop = [pending |-> <<>>, tasks |-> <<>>]

\* A tool call arrives with no other call in flight: the call is recorded and
\* its operation runs to its end
Call(op, input) ==
  /\ request' = [op |-> op, input |-> input]
  /\ UNCHANGED eventLoop

\* The bounds on the callers: a session stores at most max thoughts, and
\* applyReasoning is not called on a thought that carries MaxTags tags
RoomFor(inputData, max) ==
  validateThoughtData(inputData).threw \/ Len(thoughtHistory) < max
TagRoom(id) ==
  LET thought == findThoughtById(thoughtHistory, heap, id) IN
  IsDefined(thought) => Len(heap[thought[1]].tags) < MaxTags

---------------------------------------------------------------------------
(* Stage strings used as inputs *)

NotAStage == <<"n","o","t","-","a","-","s","t","a","g","e">>
UpperKeyIdeation == <<"I","D","E","A","T","I","O","N">>
LowerKeyProblemDefinition == <<"p","r","o","b","l","e","m","_","d","e","f","i","n","i","t","i","o","n">>

---------------------------------------------------------------------------
(* Spec: a session driven by tool calls, with branch ids that include a name
   inherited from Object.prototype *)

ThoughtIds == 1..2
ReasoningTypes == {None, Some("abductive")}
BranchIds == {"b1", "constructor"}

Inputs ==
  [thoughtNumber     : {1, 2},
   totalThoughts     : {2},
   stage             : {Some(UpperKeyIdeation), Some(NotAStage), None},
   isRevision        : {None},
   revisesThought    : {None},
   branchFromThought : {Some(1)},
   branchId          : {None, Some("constructor")},
   score             : {Some(100)},
   tags              : {<<"a">>}]

Capture ==
  \E inputData \in Inputs :
    /\ RoomFor(inputData, MaxHistory)
    /\ Call("captureThought", inputData)
    /\ captureThought(inputData)
Composed ==
  \E inputData \in Inputs :
    /\ RoomFor(inputData, MaxHistory)
    /\ Call("composedThink", inputData)
    /\ composedThink(inputData)
Apply ==
  \E id \in ThoughtIds, rt \in ReasoningTypes :
    /\ TagRoom(id)
    /\ Call("applyReasoning", [thought_id |-> id, reasoning_type |-> rt])
    /\ applyReasoning([thought_id |-> id, reasoning_type |-> rt])
Evaluate ==
  \E id \in ThoughtIds :
    /\ Call("evaluateThoughtQuality", [thought_id |-> id])
    /\ evaluateThoughtQuality([thought_id |-> id])
Retrieve ==
  \E id \in ThoughtIds :
    /\ Call("retrieveRelevantThoughts", [thought_id |-> id])
    /\ retrieveRelevantThoughts([thought_id |-> id])
Branch ==
  \E id \in ThoughtIds, b \in BranchIds :
    /\ Call("branchThought", [parent_thought_id |-> id, branch_id |-> b])
    /\ branchThought([parent_thought_id |-> id, branch_id |-> b])
Clear == Call("clearHistory", <<>>) /\ clearHistory

Next == Capture \/ Composed \/ Apply \/ Evaluate \/ Retrieve \/ Branch \/ Clear

Spec == Init /\ [][Next]_vars

---------------------------------------------------------------------------
(* SpecValidate: a session whose capture and composedThink inputs break each
   validation rule, alone and together *)

ValInputs ==
  \* the number rules and the revision rule
  [thoughtNumber     : 0..3,
   totalThoughts     : {2},
   stage             : {Some(UpperKeyIdeation)},
   isRevision        : {None},
   revisesThought    : {None, Some(1), Some(2), Some(3)},
   branchFromThought : {None},
   branchId          : {None},
   score             : {None},
   tags              : {<<>>}]
  \cup
  \* the score rule, on thoughts that join a branch
  [thoughtNumber     : {1},
   totalThoughts     : {2},
   stage             : {Some(UpperKeyIdeation)},
   isRevision        : {None},
   revisesThought    : {None},
   branchFromThought : {Some(1)},
   branchId          : {Some("b1")},
   score             : {Some(-1), Some(0), Some(100), Some(101)},
   tags              : {<<"a">>}]
  \cup
  \* an unresolvable stage, alone
  [thoughtNumber     : {1},
   totalThoughts     : {2},
   stage             : {Some(NotAStage), None},
   isRevision        : {None},
   revisesThought    : {None},
   branchFromThought : {Some(1)},
   branchId          : {Some("b1")},
   score             : {Some(100)},
   tags              : {<<"a">>}]
  \cup
  \* an unresolvable stage with every other rule broken
  [thoughtNumber     : {0},
   totalThoughts     : {-1},
   stage             : {Some(NotAStage), None},
   isRevision        : {None},
   revisesThought    : {Some(1)},
   branchFromThought : {Some(1)},
   branchId          : {Some("b1")},
   score             : {Some(101)},
   tags              : {<<"a">>}]

ValCapture ==
  \E inputData \in ValInputs :
    /\ RoomFor(inputData, MaxValidated)
    /\ Call("captureThought", inputData)
    /\ captureThought(inputData)
ValComposed ==
  \E inputData \in ValInputs :
    /\ RoomFor(inputData, MaxValidated)
    /\ Call("composedThink", inputData)
    /\ composedThink(inputData)
ValApply ==
  \E id \in ThoughtIds :
    /\ TagRoom(id)
    /\ Call("applyReasoning", [thought_id |-> id, reasoning_type |-> None])
    /\ applyReasoning([thought_id |-> id, reasoning_type |-> None])
ValBranch ==
  \E id \in ThoughtIds, b \in BranchIds :
    /\ Call("branchThought", [parent_thought_id |-> id, branch_id |-> b])
    /\ branchThought([parent_thought_id |-> id, branch_id |-> b])
ValClear == Call("clearHistory", <<>>) /\ clearHistory

NextValidate == ValCapture \/ ValComposed \/ ValApply \/ ValBranch \/ ValClear

SpecValidate == Init /\ [][NextValidate]_vars

---------------------------------------------------------------------------
(* SpecStage: stage strings sent, one per fresh session, to capture and
   composedThink *)

LowerCaseOf ==
  [c \in {UpperCaseLetters[k] : k \in DOMAIN UpperCaseLetters} |->
     LowerCaseLetters[CHOOSE k \in DOMAIN UpperCaseLetters : UpperCaseLetters[k] = c]]

\* The other case of a letter; any other character itself
FlipCase(c) ==
  IF c \in DOMAIN UpperCaseOf THEN UpperCaseOf[c]
  ELSE IF c \in DOMAIN LowerCaseOf THEN LowerCaseOf[c]
  ELSE c

RECURSIVE SubsetsUpTo(_, _)
SubsetsUpTo(S, k) ==
  IF k = 0 THEN {{}}
  ELSE LET smaller == SubsetsUpTo(S, k - 1) IN
       smaller \cup {T \cup {x} : T \in smaller, x \in S}

\* s with the case of at most MaxFlips characters changed, s in upper case and
\* s in lower case
CaseVariants(s) ==
  {[i \in DOMAIN s |-> IF i \in T THEN FlipCase(s[i]) ELSE s[i]] :
     T \in SubsetsUpTo(DOMAIN s, MaxFlips)}
  \cup {[i \in DOMAIN s |-> IF s[i] \in DOMAIN UpperCaseOf THEN UpperCaseOf[s[i]] ELSE s[i]],
        [i \in DOMAIN s |-> IF s[i] \in DOMAIN LowerCaseOf THEN LowerCaseOf[s[i]] ELSE s[i]]}

\* Strings that are no stage in any case
Unresolvable ==
  {NotAStage,
   <<>>,
   <<" ","P","l","a","n">>,
   <<"P","l","a","n"," ">>,
   <<"P","l","a","n","s">>,
   <<"A","n","a","l","y","s","i">>,
   <<"P","r","o","b","l","e","m","-","D","e","f","i","n","i","t","i","o","n">>,
   <<"P","r","o","b","l","e","m","D","e","f","i","n","i","t","i","o","n">>,
   <<"p","r","o","b","l","e","m">>}

StageProbes ==
  UNION {CaseVariants(ThoughtStage[i].name) \cup CaseVariants(ThoughtStage[i].value) :
           i \in DOMAIN ThoughtStage}
  \cup Unresolvable

StageInput(s) ==
  [thoughtNumber     |-> 1,
   totalThoughts     |-> 1,
   stage             |-> Some(s),
   isRevision        |-> None,
   revisesThought    |-> None,
   branchFromThought |-> None,
   branchId          |-> None,
   score             |-> None,
   tags              |-> <<>>]

StageCapture ==
  \E s \in StageProbes :
    /\ thoughtHistory = <<>>
    /\ Call("captureThought", StageInput(s))
    /\ captureThought(StageInput(s))
StageComposed ==
  \E s \in StageProbes :
    /\ thoughtHistory = <<>>
    /\ Call("composedThink", StageInput(s))
    /\ composedThink(StageInput(s))
StageClear == Call("clearHistory", <<>>) /\ clearHistory

NextStage == StageCapture \/ StageComposed \/ StageClear

SpecStage == Init /\ [][NextStage]_vars

---------------------------------------------------------------------------
(* SpecReason: sessions whose thoughts cover the ten stages, driven by      *)
(* applyReasoning with and without a reasoning_type                        *)

\* A session stores at most MaxReasoned thoughts here
MaxReasoned == 2

\* The first thought of a session: any stage, no tags
ReasonFirst ==
  [thoughtNumber     : {1},
   totalThoughts     : {2},
   stage             : {Some(ThoughtStage[i].value) : i \in DOMAIN ThoughtStage},
   isRevision        : {None},
   revisesThought    : {None},
   branchFromThought : {None},
   branchId          : {None},
   score             : {None},
   tags              : {<<>>}]

\* Thoughts of any position: a number seen before or new, a tag set already
ReasonAny ==
  [thoughtNumber     : {1, 2},
   totalThoughts     : {2},
   stage             : {Some(IDEATION)},
   isRevision        : {None},
   revisesThought    : {None},
   branchFromThought : {None},
   branchId          : {None},
   score             : {None},
   tags              : {<<"creative">>}]

\* reasoning_type: absent, a pattern name, the empty string
Overrides == {None, Some("abductive"), Some("")}

ReasonCapture ==
  \E inputData \in ReasonFirst \cup ReasonAny :
    /\ inputData \in ReasonFirst => thoughtHistory = <<>>
    /\ RoomFor(inputData, MaxReasoned)
    /\ Call("captureThought", inputData)
    /\ captureThought(inputData)
ReasonApply ==
  \E id \in ThoughtIds, rt \in Overrides :
    /\ TagRoom(id)
    /\ Call("applyReasoning", [thought_id |-> id, reasoning_type |-> rt])
    /\ applyReasoning([thought_id |-> id, reasoning_type |-> rt])
ReasonClear == Call("clearHistory", <<>>) /\ clearHistory

NextReason == ReasonCapture \/ ReasonApply \/ ReasonClear

SpecReason == Init /\ [][NextReason]_vars

---------------------------------------------------------------------------
(* SpecRecall: sessions of scored and tagged thoughts, queried with        *)
(* retrieveRelevantThoughts                                                *)

\* A session stores at most MaxRecall thoughts here
MaxRecall == 3

RecallTags == {<<>>, <<"a">>, <<"b">>, <<"a", "b">>}

RecallInputs ==
  [thoughtNumber     : {1},
   totalThoughts     : {3},
   stage             : {Some(ThoughtStage[1].value)},
   isRevision        : {None},
   revisesThought    : {None},
   branchFromThought : {None},
   branchId          : {None},
   score             : {Some(60), Some(80)},
   tags              : RecallTags]
  \cup
  [thoughtNumber     : {2},
   totalThoughts     : {3},
   stage             : {Some(ANALYSIS)},
   isRevision        : {None},
   revisesThought    : {None},
   branchFromThought : {Some(1)},
   branchId          : {Some("b1")},
   score             : {Some(60), Some(80)},
   tags              : RecallTags]

RecallCapture ==
  \E inputData \in RecallInputs :
    /\ RoomFor(inputData, MaxRecall)
    /\ Call("captureThought", inputData)
    /\ captureThought(inputData)
RecallRetrieve ==
  \E id \in ThoughtIds :
    /\ Call("retrieveRelevantThoughts", [thought_id |-> id])
    /\ retrieveRelevantThoughts([thought_id |-> id])
RecallClear == Call("clearHistory", <<>>) /\ clearHistory

NextRecall == RecallCapture \/ RecallRetrieve \/ RecallClear

SpecRecall == Init /\ [][NextRecall]_vars

---------------------------------------------------------------------------
(* SpecBranching: captures whose branchFromThought and branchId are       *)
(* absent, falsy or truthy                                                 *)

\* A session stores at most MaxBranching thoughts here
MaxBranching == 2

\* branchFromThought is z.number().int().optional() and branchId is
\* z.string().optional(): 0 and "" are values a caller can send. Thought 5
\* is never in the history; thought 1 is after the first capture.
BranchingInputs ==
  [thoughtNumber     : {1},
   totalThoughts     : {2},
   stage             : {Some(IDEATION)},
   isRevision        : {None},
   revisesThought    : {None},
   branchFromThought : {None, Some(0), Some(1), Some(5)},
   branchId          : {None, Some(""), Some("b1"), Some("b2")},
   score             : {Some(50)},
   tags              : {<<>>}]
  \cup
  [thoughtNumber     : {2},
   totalThoughts     : {2},
   stage             : {Some(UpperKeyIdeation)},
   isRevision        : {None},
   revisesThought    : {None},
   branchFromThought : {Some(1)},
   branchId          : {Some("b1")},
   score             : {None},
   tags              : {<<"t">>}]

BranchingCapture ==
  \E inputData \in BranchingInputs :
    /\ RoomFor(inputData, MaxBranching)
    /\ Call("captureThought", inputData)
    /\ captureThought(inputData)
BranchingComposed ==
  \E inputData \in BranchingInputs :
    /\ RoomFor(inputData, MaxBranching)
    /\ Call("composedThink", inputData)
    /\ composedThink(inputData)
BranchingClear == Call("clearHistory", <<>>) /\ clearHistory

NextBranching == BranchingCapture \/ BranchingComposed \/ BranchingClear

SpecBranching == Init /\ [][NextBranching]_vars

---------------------------------------------------------------------------
(* SpecSummary: sessions of scored and unscored thoughts, revisions and    *)
(* branch thoughts, read with the summary and the two lookups              *)

\* A session stores at most MaxSummary thoughts here
MaxSummary == 2

SummaryInputs ==
  [thoughtNumber     : {1},
   totalThoughts     : {2},
   stage             : {Some(ThoughtStage[1].value), Some(IDEATION)},
   isRevision        : {None},
   revisesThought    : {None},
   branchFromThought : {None},
   branchId          : {None},
   score             : {None, Some(50), Some(80)},
   tags              : {<<"a">>}]
  \cup
  [thoughtNumber     : {2},
   totalThoughts     : {2},
   stage             : {Some(IDEATION)},
   isRevision        : {Some(TRUE), Some(FALSE)},
   revisesThought    : {Some(1)},
   branchFromThought : {Some(1)},
   branchId          : {Some("b1")},
   score             : {Some(10), Some(20)},
   tags              : {<<"a">>}]
  \cup
  [thoughtNumber     : {1},
   totalThoughts     : {2},
   stage             : {Some(IDEATION)},
   isRevision        : {None},
   revisesThought    : {None},
   branchFromThought : {Some(1)},
   branchId          : {Some("constructor")},
   score             : {Some(50)},
   tags              : {<<"a">>}]

SummaryCapture ==
  \E inputData \in SummaryInputs :
    /\ RoomFor(inputData, MaxSummary)
    /\ Call("captureThought", inputData)
    /\ captureThought(inputData)
SummaryEvaluate ==
  \E id \in ThoughtIds :
    /\ Call("evaluateThoughtQuality", [thought_id |-> id])
    /\ evaluateThoughtQuality([thought_id |-> id])
SummaryRetrieve ==
  \E id \in ThoughtIds :
    /\ Call("retrieveRelevantThoughts", [thought_id |-> id])
    /\ retrieveRelevantThoughts([thought_id |-> id])
SummarySummary == Call("getThinkingSummary", <<>>) /\ getThinkingSummary
SummaryClear == Call("clearHistory", <<>>) /\ clearHistory

NextSummary ==
  SummaryCapture \/ SummaryEvaluate \/ SummaryRetrieve \/ SummarySummary \/ SummaryClear

SpecSummary == Init /\ [][NextSummary]_vars

---------------------------------------------------------------------------
(* SpecMonitor: the metacognitive monitor applied to thoughts of every     *)
(* stage and to metric records                                             *)

\* Scores within [0,1], in hundredths: falsy 0, the threshold 0.7 and scores
\* around it, 0.8 and the maximum
MonitorScores == {None, Some(0), Some(1), Some(50), Some(69), Some(70), Some(80), Some(100)}

\* Thoughts as validateThoughtData returns them
MonitorThoughts ==
  [thoughtNumber     : {1},
   totalThoughts     : {1},
   stage             : {ThoughtStage[i].value : i \in DOMAIN ThoughtStage},
   isRevision        : {None},
   revisesThought    : {None},
   branchFromThought : {None},
   branchId          : {None},
   score             : MonitorScores,
   tags              : {<<>>}]

\* Metric values below, at and above the threshold
MetricSamples == {NumberLiteral(69, 100), NumberLiteral(70, 100), NumberLiteral(108, 100)}

MonitorMetrics ==
  [coherence : MetricSamples, depth : MetricSamples, creativity : MetricSamples,
   practicality : MetricSamples, relevance : MetricSamples, clarity : MetricSamples]

MonitorEvaluate ==
  \E thought \in MonitorThoughts :
    /\ Call("MetacognitiveMonitor.evaluateThoughtQuality", thought)
    /\ response' = Return(evaluateThoughtQuality_metrics(thought))
    /\ UNCHANGED <<stores, captured, accepted>>
MonitorGenerate ==
  \E metrics \in MonitorMetrics :
    /\ Call("MetacognitiveMonitor.generateImprovementSuggestions", metrics)
    /\ response' = Return(generateImprovementSuggestions(metrics))
    /\ UNCHANGED <<stores, captured, accepted>>
MonitorSuggest ==
  \E thought \in MonitorThoughts :
    /\ Call("MetacognitiveMonitor.suggestImprovements", thought)
    /\ response' = Return(suggestImprovements(thought))
    /\ UNCHANGED <<stores, captured, accepted>>

NextMonitor == MonitorEvaluate \/ MonitorGenerate \/ MonitorSuggest

SpecMonitor == Init /\ [][NextMonitor]_vars

---------------------------------------------------------------------------
(* SpecConcurrent: calls received while other calls are in flight. A       *)
(* handler runs statement by statement; the event loop starts or resumes   *)
(* another handler only while every handler begun is at an await           *)

\* calls in flight at most
MaxInFlight == 2
\* thoughts a session stores here at most
MaxConcurrent == 2

\* A handler that awaits between the history and the branch index
AwaitPoints_BeforeBranching == {"branches.push"}

\* The statements at which the CallToolRequestSchema handler and the
\* operations it calls await: the handler is declared async and awaits
\* nowhere
AwaitPoints == {}

ConcurrentInput ==
  [thoughtNumber     |-> 1,
   totalThoughts     |-> 2,
   stage             |-> Some(IDEATION),
   isRevision        |-> None,
   revisesThought    |-> None,
   branchFromThought |-> Some(1),
   branchId          |-> Some("b1"),
   score             |-> Some(80),
   tags              |-> <<"a">>]

ConcurrentCalls ==
  {[op |-> "captureThought", input |-> ConcurrentInput],
   [op |-> "captureThought", input |-> [ConcurrentInput EXCEPT !.stage = Some(NotAStage)]],
   [op |-> "composedThink", input |-> ConcurrentInput],
   [op |-> "getThinkingSummary", input |-> <<>>]}

\* The capture calls in flight
CapturesInFlight ==
  Len(SelectSeq(eventLoop.pending, LAMBDA call : call.op # "getThinkingSummary"))
  + Len(SelectSeq(eventLoop.tasks, LAMBDA task : task.call.op # "getThinkingSummary"))

\* The event loop runs one handler at a time: handler i can take a step, or
\* a new handler can be begun (i = 0), when all the others are at an await
CanRun(i) ==
  \A j \in DOMAIN eventLoop.tasks : j # i => eventLoop.tasks[j].pc \in AwaitPoints

\* Handler i is at the statement pc and it is its turn
At(i, pc) == eventLoop.tasks[i].pc = pc /\ CanRun(i)

Without(seq, i) == SubSeq(seq, 1, i - 1) \o SubSeq(seq, i + 1, Len(seq))

\* Handler i returns its result to the caller
Finish(i, result) ==
  /\ request' = eventLoop.tasks[i].call
  /\ response' = result
  /\ eventLoop' = [eventLoop EXCEPT !.tasks = Without(@, i)]

\* The transport receives a call
Receive ==
  \E call \in ConcurrentCalls :
    /\ Len(eventLoop.pending) + Len(eventLoop.tasks) < MaxInFlight
    /\ call.op # "getThinkingSummary" => Len(thoughtHistory) + CapturesInFlight < MaxConcurrent
    /\ eventLoop' = [eventLoop EXCEPT !.pending = Append(@, call)]
    /\ UNCHANGED <<stores, request, response, captured, accepted>>

\* The handler of a received call is begun; before is a history variable, the
\* session as the handler finds it
Dispatch ==
  \E k \in DOMAIN eventLoop.pending :
    /\ CanRun(0)
    /\ eventLoop' =
         [pending |-> Without(eventLoop.pending, k),
          tasks   |-> Append(eventLoop.tasks,
                        [call     |-> eventLoop.pending[k],
                         pc       |-> IF eventLoop.pending[k].op = "getThinkingSummary"
                                      THEN "generateSummary" ELSE "validateThoughtData",
                         ref      |-> 0,
                         analysis |-> <<>>,
                         before   |-> [heap |-> heap, thoughtHistory |-> thoughtHistory,
                                       branches |-> branches,
                                       activeBranchId |-> activeBranchId,
                                       shortTermBuffer |-> shortTermBuffer,
                                       longTermStorage |-> longTermStorage]])]
    /\ UNCHANGED <<stores, request, response, captured, accepted>>

\* const thoughtData = this.validateThoughtData(inputData), and in
\* composedThink applyReasoningStrategy(thoughtData); the catch clause when
\* it throws
StepValidate ==
  \E i \in DOMAIN eventLoop.tasks :
    LET task == eventLoop.tasks[i]
        v == validateThoughtData(task.call.input)
    IN /\ At(i, "validateThoughtData")
       /\ IF v.threw
          THEN /\ Finish(i, handleError(v.error))
               /\ UNCHANGED <<stores, captured, accepted>>
          ELSE /\ heap' = Append(heap, IF task.call.op = "composedThink"
                                       THEN applyReasoningStrategy(v.value) ELSE v.value)
               /\ eventLoop' = [eventLoop EXCEPT !.tasks[i].pc = "consolidateMemory",
                                                 !.tasks[i].ref = Len(heap) + 1]
               /\ UNCHANGED <<thoughtHistory, branches, activeBranchId, shortTermBuffer,
                              longTermStorage, request, response, captured, accepted>>

\* this.memoryManager.consolidateMemory(thoughtData)
StepConsolidate ==
  \E i \in DOMAIN eventLoop.tasks :
    LET task == eventLoop.tasks[i]
        mem == consolidateMemory(shortTermBuffer, longTermStorage, task.ref, heap[task.ref])
    IN /\ At(i, "consolidateMemory")
       /\ shortTermBuffer' = mem.shortTermBuffer
       /\ longTermStorage' = mem.longTermStorage
       /\ eventLoop' = [eventLoop EXCEPT !.tasks[i].pc =
                          IF task.call.op = "composedThink" THEN "suggestImprovements"
                          ELSE "thoughtHistory.push"]
       /\ UNCHANGED <<heap, thoughtHistory, branches, activeBranchId,
                      request, response, captured, accepted>>

\* composedThink: const improvements = ...; const relatedThoughts = ...
StepAnalyse ==
  \E i \in DOMAIN eventLoop.tasks :
    LET task == eventLoop.tasks[i] IN
    /\ At(i, "suggestImprovements")
    /\ eventLoop' =
         [eventLoop EXCEPT
            !.tasks[i].pc = "thoughtHistory.push",
            !.tasks[i].analysis =
               <<[improvements |-> suggestImprovements(heap[task.ref]),
                  relatedThoughts |->
                    MemoryManager_retrieveRelevantThoughts(longTermStorage, heap,
                                                           heap[task.ref])]>>]
    /\ UNCHANGED <<stores, request, response, captured, accepted>>

\* this.thoughtHistory.push(thoughtData)
StepPush ==
  \E i \in DOMAIN eventLoop.tasks :
    /\ At(i, "thoughtHistory.push")
    /\ thoughtHistory' = Append(thoughtHistory, eventLoop.tasks[i].ref)
    /\ eventLoop' = [eventLoop EXCEPT !.tasks[i].pc = "branches.push"]
    /\ UNCHANGED <<heap, branches, activeBranchId, shortTermBuffer, longTermStorage,
                   request, response, captured, accepted>>

\* The branch bookkeeping, and the catch clause when push throws
StepBranching ==
  \E i \in DOMAIN eventLoop.tasks :
    LET task == eventLoop.tasks[i]
        br == HandleBranching(branches, task.ref, heap[task.ref])
    IN /\ At(i, "branches.push")
       /\ branches' = br.branches
       /\ UNCHANGED <<heap, thoughtHistory, activeBranchId, shortTermBuffer, longTermStorage>>
       /\ IF br.threw
          THEN /\ Finish(i, handleError(br.error))
               /\ UNCHANGED <<captured, accepted>>
          ELSE /\ eventLoop' = [eventLoop EXCEPT !.tasks[i].pc = "return"]
               /\ UNCHANGED <<request, response, captured, accepted>>

\* return { content: [...] } of captureThought and of composedThink
StepReturn ==
  \E i \in DOMAIN eventLoop.tasks :
    LET task == eventLoop.tasks[i]
        thoughtData == heap[task.ref]
    IN /\ At(i, "return")
       /\ Finish(i, IF task.call.op = "captureThought"
                    THEN Success([status |-> "success",
                                  thoughtCaptured |->
                                    [thoughtNumber |-> thoughtData.thoughtNumber,
                                     stage |-> thoughtData.stage,
                                     branch |-> thoughtData.branchId]])
                    ELSE Success(
                           [thoughtAnalysis |->
                             [currentThought |->
                                [thoughtNumber |-> thoughtData.thoughtNumber,
                                 totalThoughts |-> thoughtData.totalThoughts,
                                 stage |-> thoughtData.stage,
                                 score |-> thoughtData.score,
                                 tags |-> thoughtData.tags,
                                 branch |-> thoughtData.branchId],
                              analysis |->
                                [relatedThoughtsCount |-> Len(task.analysis[1].relatedThoughts),
                                 qualityMetrics |-> evaluateThoughtQuality_metrics(thoughtData),
                                 suggestedImprovements |-> task.analysis[1].improvements],
                              context |->
                                [activeBranches |-> ObjectOwnKeys(branches),
                                 thoughtHistoryLength |-> Len(thoughtHistory),
                                 currentStage |-> thoughtData.stage]]]))
       /\ captured' = captured \cup {thoughtData.thoughtNumber}
       /\ accepted' = Append(accepted, task.ref)
       /\ UNCHANGED stores

\* get_thinking_summary: thinkingServer.generateSummary()
StepSummary ==
  \E i \in DOMAIN eventLoop.tasks :
    /\ At(i, "generateSummary")
    /\ Finish(i, Success(generateSummary(thoughtHistory, heap, branches)))
    /\ UNCHANGED <<stores, captured, accepted>>

NextConcurrent ==
  \/ Receive \/ Dispatch
  \/ StepValidate \/ StepConsolidate \/ StepAnalyse \/ StepPush \/ StepBranching
  \/ StepReturn \/ StepSummary

SpecConcurrent == Init /\ [][NextConcurrent]_vars

---------------------------------------------------------------------------
(* Vocabulary of the properties *)

\* s and t are the same string when the case of the letters is ignored
EqualsIgnoreCase(s, t) ==
  /\ Len(s) = Len(t)
  /\ \A i \in DOMAIN s : s[i] = t[i] \/ FlipCase(s[i]) = t[i]

\* The stages an optional string names, by canonical label or symbolic name
StagesNamed(stage) ==
  IF ~IsDefined(stage) THEN {}
  ELSE {i \in DOMAIN ThoughtStage :
          \/ EqualsIgnoreCase(stage[1], ThoughtStage[i].name)
          \/ EqualsIgnoreCase(stage[1], ThoughtStage[i].value)}

\* The rules of a thought record, as the specification words them
BreaksStage(input) == StagesNamed(input.stage) = {}
BreaksNumber(input) == input.thoughtNumber < 1
BreaksTotal(input) == input.totalThoughts < input.thoughtNumber
BreaksScore(input) ==
  IsDefined(input.score) /\ (input.score[1] < 0 \/ input.score[1] > 100)
BreaksRevision(input) ==
  IsDefined(input.revisesThought) /\ input.revisesThought[1] >= input.thoughtNumber
FailsValidation(input) ==
  \/ BreaksStage(input)
  \/ BreaksNumber(input)
  \/ BreaksTotal(input)
  \/ BreaksScore(input)
  \/ BreaksRevision(input)

CaptureOps == {"captureThought", "composedThink"}
LookupOps == {"applyReasoning", "evaluateThoughtQuality", "retrieveRelevantThoughts"}
EnvelopeOps == CaptureOps \cup LookupOps \cup {"branchThought"}

\* The two envelopes
IsFailure(r) == ~r.raised /\ r.isError /\ r.body.status = "failed"
IsSuccess(r) ==
  /\ ~r.raised
  /\ ~r.isError
  /\ IF "status" \in DOMAIN r.body THEN r.body.status = "success"
     ELSE "thoughtAnalysis" \in DOMAIN r.body

\* The words sub stand next to each other in words
Contains(words, sub) ==
  \E i \in 1..(Len(words) - Len(sub) + 1) : SubSeq(words, i, i + Len(sub) - 1) = sub

\* Some history entry carries the number n
Carried(n) ==
  \E i \in DOMAIN thoughtHistory : heap[thoughtHistory[i]].thoughtNumber = n

\* Every thought object the session holds: in the history, a branch list or a
\* memory tier
HeldRefs ==
  {thoughtHistory[i] : i \in DOMAIN thoughtHistory}
  \cup {shortTermBuffer[i] : i \in DOMAIN shortTermBuffer}
  \cup UNION {{branches[i].thoughts[j] : j \in DOMAIN branches[i].thoughts} :
                i \in DOMAIN branches}
  \cup UNION {{longTermStorage[i].thoughts[j] : j \in DOMAIN longTermStorage[i].thoughts} :
                i \in DOMAIN longTermStorage}

WellFormed(thought) ==
  /\ thought.thoughtNumber >= 1
  /\ thought.totalThoughts >= thought.thoughtNumber
  /\ IsDefined(thought.score) => (thought.score[1] >= 0 /\ thought.score[1] <= 100)
  /\ IsDefined(thought.revisesThought) => thought.revisesThought[1] < thought.thoughtNumber

---------------------------------------------------------------------------
(* SpecMemory: sessions whose thoughts repeat numbers, are promoted or not, *)
(* join a branch or not, and are tagged, looked up and branched from after *)
(* their capture                                                           *)

\* A session stores at most MaxMemory thoughts here
MaxMemory == 2

\* Thought 1 comes without a score or promoted and without tags; thought 2
\* comes below or above the importance threshold, with a pattern name as tag
\* and in the branch b1
MemoryInputs ==
  [thoughtNumber     : {1},
   totalThoughts     : {2},
   stage             : {Some(IDEATION)},
   isRevision        : {None},
   revisesThought    : {None},
   branchFromThought : {None},
   branchId          : {None},
   score             : {None, Some(80)},
   tags              : {<<>>}]
  \cup
  [thoughtNumber     : {2},
   totalThoughts     : {2},
   stage             : {Some(SYNTHESIS)},
   isRevision        : {None},
   revisesThought    : {None},
   branchFromThought : {Some(1)},
   branchId          : {Some("b1")},
   score             : {Some(50), Some(80)},
   tags              : {<<"creative">>}]

MemoryCapture ==
  \E inputData \in MemoryInputs :
    /\ RoomFor(inputData, MaxMemory)
    /\ Call("captureThought", inputData)
    /\ captureThought(inputData)
MemoryComposed ==
  \E inputData \in MemoryInputs :
    /\ RoomFor(inputData, MaxMemory)
    /\ Call("composedThink", inputData)
    /\ composedThink(inputData)

\* branchThought is called with the id the captures use and with another one
MemoryBranchIds == {"b1", "b2"}

MemoryBranch ==
  \E id \in ThoughtIds, b \in MemoryBranchIds :
    /\ Call("branchThought", [parent_thought_id |-> id, branch_id |-> b])
    /\ branchThought([parent_thought_id |-> id, branch_id |-> b])

NextMemory ==
  MemoryCapture \/ MemoryComposed \/ Apply \/ Evaluate \/ Retrieve \/ MemoryBranch \/ Clear

SpecMemory == Init /\ [][NextMemory]_vars

---------------------------------------------------------------------------

(* Properties *)

\* C1: a captureThought or composedThink call whose input breaks a rule
\* (unresolvable stage, number < 1, total < number, score outside [0,1],
\* revised number >= number) returns the failure envelope and leaves the
\* history, the branch index, the active branch and both memory tiers as
\* they were before the call.
C1_InvalidInputChangesNothing ==
  [][(request'.op \in CaptureOps /\ FailsValidation(request'.input))
       => (IsFailure(response') /\ UNCHANGED stores)]_vars

C1_Witness ==
  /\ request.op \in CaptureOps
  /\ BreaksTotal(request.input)
  /\ IsFailure(response)
  /\ thoughtHistory # <<>>
  /\ branches # <<>>
  /\ longTermStorage # <<>>

\* C2 (as stated): every captureThought or composedThink call whose input
\* breaks no rule ends in a success envelope, whatever its branchId.
C2_ValidInputAlwaysSucceeds ==
  (request.op \in CaptureOps /\ ~FailsValidation(request.input))
    => IsSuccess(response)

\* C3: every thought the session holds has number >= 1, total >= number, a
\* score that is absent or within [0,1] and a revised number that is absent
\* or below its number, whatever operations ran after it was stored.
C3_HeldThoughtsWellFormed ==
  \A ref \in HeldRefs : WellFormed(heap[ref])

C3_Witness ==
  /\ request.op = "applyReasoning"
  /\ IsSuccess(response)
  /\ \E ref \in HeldRefs :
       /\ heap[ref].thoughtNumber = request.input.thought_id
       /\ heap[ref].revisesThought = Some(1)
       /\ heap[ref].tags # <<>>

\* C4: once a thought numbered n was captured with success,
\* evaluateThoughtQuality(n) answers with a success envelope in every state
\* the session reaches before the next clearHistory.
C4_CapturedStaysEvaluable ==
  \A n \in captured :
    IsSuccess(evaluateThoughtQuality_envelope(thoughtHistory, heap, [thought_id |-> n]))

C4_Witness ==
  /\ captured = {1, 2}
  /\ request.op = "evaluateThoughtQuality"
  /\ request.input.thought_id = 1
  /\ IsSuccess(response)
  /\ \E ref \in HeldRefs : heap[ref].thoughtNumber = 1 /\ Len(heap[ref].tags) > 1

\* C5: applyReasoning, evaluateThoughtQuality and retrieveRelevantThoughts
\* called with a number no history entry carries return the failure envelope
\* whose message contains "not found", and change nothing the session holds.
C5_AbsentNumberNotFound ==
  [][(request'.op \in LookupOps /\ ~Carried(request'.input.thought_id))
       => /\ IsFailure(response')
          /\ Contains(response'.body.error.words, <<"not", "found">>)
          /\ UNCHANGED stores]_vars

C5_Witness ==
  /\ request.op = "applyReasoning"
  /\ ~Carried(request.input.thought_id)
  /\ IsFailure(response)
  /\ thoughtHistory # <<>>

\* C6: captureThought, applyReasoning, evaluateThoughtQuality,
\* retrieveRelevantThoughts, branchThought and composedThink give their caller
\* a success or a failure envelope on every input; no exception leaves them.
C6_AlwaysAnEnvelope ==
  request.op \in EnvelopeOps
    => (~response.raised /\ (IsSuccess(response) \/ IsFailure(response)))

C6_Witness ==
  /\ request.op = "composedThink"
  /\ IsFailure(response)
  /\ response.body.errorType = "TypeError"

\* C7 (as stated): a captureThought or composedThink input whose revised
\* number is >= its number is rejected with a message that contains "revise".
C7_RevisionAlwaysNamed ==
  (request.op \in CaptureOps /\ BreaksRevision(request.input))
    => (IsFailure(response) /\ Contains(response.body.error.words, <<"revise">>))

\* C7 (amended): such an input is always rejected, and the message contains
\* "revise" whenever no rule checked earlier is broken too: the stage
\* resolves, number >= 1, total >= number and the score is absent or in [0,1].
C7_RevisionRejected ==
  (request.op \in CaptureOps /\ BreaksRevision(request.input))
    => /\ IsFailure(response)
       /\ (~BreaksStage(request.input) /\ ~BreaksNumber(request.input)
           /\ ~BreaksTotal(request.input) /\ ~BreaksScore(request.input))
            => Contains(response.body.error.words, <<"revise">>)

C7_Witness ==
  /\ request.op \in CaptureOps
  /\ request.input.thoughtNumber = 2
  /\ request.input.revisesThought = Some(2)
  /\ IsFailure(response)
  /\ Contains(response.body.error.words, <<"revise">>)

\* C8 (as stated): a captureThought input with a score below 0 or above 1 is
\* rejected; one with score 0 or 1 that breaks no rule is accepted and stored.
C8_ScoreBoundsInclusive ==
  request.op = "captureThought"
    => /\ BreaksScore(request.input) => IsFailure(response)
       /\ (request.input.score \in {Some(0), Some(100)} /\ ~FailsValidation(request.input))
            => /\ IsSuccess(response)
               /\ thoughtHistory # <<>>
               /\ heap[thoughtHistory[Len(thoughtHistory)]].score = request.input.score

\* The stage a successful captureThought or composedThink reports
ReportedStage(r) ==
  IF "thoughtAnalysis" \in DOMAIN r.body
  THEN r.body.thoughtAnalysis.currentThought.stage
  ELSE r.body.thoughtCaptured.stage

\* C9: a string that equals the canonical label or the symbolic name of a
\* stage when case is ignored resolves to that stage: the call succeeds and
\* the thought is reported and stored with the stage's canonical label (a
\* canonical label therefore comes back unchanged).
C9_StageResolvesIgnoringCase ==
  \A i \in DOMAIN ThoughtStage :
    (request.op \in CaptureOps /\ i \in StagesNamed(request.input.stage))
      => /\ IsSuccess(response)
         /\ ReportedStage(response) = ThoughtStage[i].value
         /\ Len(thoughtHistory) = 1
         /\ heap[thoughtHistory[1]].stage = ThoughtStage[i].value

C9_Witness ==
  /\ request.op = "captureThought"
  /\ request.input.stage = Some(LowerKeyProblemDefinition)
  /\ IsSuccess(response)
  /\ ReportedStage(response) = ThoughtStage[1].value

AskedNumber(req) ==
  IF req.op = "branchThought" THEN req.input.parent_thought_id ELSE req.input.thought_id

\* C11 (as stated): every failure envelope carries an error kind that tells
\* the causes apart: InvalidStage for an unresolvable stage, ValidationError
\* for a broken rule of the record, NotFound for a number the history lacks.
C11_ErrorKindTellsCauses ==
  IsFailure(response)
    => /\ (request.op \in CaptureOps /\ IsDefined(request.input.stage)
           /\ BreaksStage(request.input))
            => response.body.errorType = "InvalidStage"
       /\ (request.op \in CaptureOps /\ ~BreaksStage(request.input)
           /\ FailsValidation(request.input))
            => response.body.errorType = "ValidationError"
       /\ (request.op \in LookupOps \cup {"branchThought"} /\ ~Carried(AskedNumber(request)))
            => response.body.errorType = "NotFound"

\* The history entry a lookup of the number n finds: the first that carries n
Target(n) ==
  thoughtHistory[Min({i \in DOMAIN thoughtHistory : heap[thoughtHistory[i]].thoughtNumber = n})]

\* The fixed stage mapping, as the specification words it
MappedTag(stage) ==
  IF stage = <<"I", "d", "e", "a", "t", "i", "o", "n">> THEN "creative"
  ELSE IF stage = <<"S", "y", "n", "t", "h", "e", "s", "i", "s">> THEN "inductive"
  ELSE "deductive"

\* The step is a successful applyReasoning call
AppliedStep == request'.op = "applyReasoning" /\ IsSuccess(response')

\* C12: a successful applyReasoning appends the tag of the fixed stage
\* mapping to the thought: "creative" for Ideation, "inductive" for
\* Synthesis, "deductive" for Analysis, Evaluation and every other stage.
C12_TagFollowsStage ==
  [][AppliedStep =>
       LET ref == Target(request'.input.thought_id) IN
       heap'[ref].tags = Append(heap[ref].tags, MappedTag(heap[ref].stage))]_vars

C12_Witness ==
  /\ request.op = "applyReasoning"
  /\ IsSuccess(response)
  /\ heap[Target(request.input.thought_id)].stage = SYNTHESIS
  /\ heap[Target(request.input.thought_id)].tags = <<"inductive">>

\* C13: a successful applyReasoning(n) puts exactly one tag at the end of
\* the tag list of the thought it targets, also when the list holds that tag
\* already, and changes nothing else: no other field, no other thought.
C13_ExactlyOneTagAppended ==
  [][AppliedStep =>
       LET ref == Target(request'.input.thought_id) IN
       /\ Len(heap'[ref].tags) = Len(heap[ref].tags) + 1
       /\ SubSeq(heap'[ref].tags, 1, Len(heap[ref].tags)) = heap[ref].tags
       /\ [heap'[ref] EXCEPT !.tags = heap[ref].tags] = heap[ref]
       /\ DOMAIN heap' = DOMAIN heap
       /\ \A other \in DOMAIN heap : other # ref => heap'[other] = heap[other]
       /\ UNCHANGED <<thoughtHistory, branches, activeBranchId, shortTermBuffer,
                      longTermStorage>>]_vars

C13_Witness ==
  /\ request.op = "applyReasoning"
  /\ IsSuccess(response)
  /\ Len(heap) = 2
  /\ heap[Target(request.input.thought_id)].tags = <<"creative", "creative">>
  /\ \E other \in DOMAIN heap : heap[other].tags = <<>>

LastOf(seq, k) ==
  IF Len(seq) <= k THEN seq ELSE SubSeq(seq, Len(seq) - k + 1, Len(seq))

\* C15 (as stated): the short-term buffer never holds more than 10 thoughts,
\* and after n successful captureThought or composedThink calls since the
\* last clear it holds the min(10, n) thoughts stored last, oldest first.
C15_BufferHoldsLastAccepted ==
  /\ Len(shortTermBuffer) <= 10
  /\ shortTermBuffer = LastOf(accepted, 10)

\* The long-term list of a stage (empty when the stage has none)
LongTermOf(stage) ==
  IF OwnIndex(longTermStorage, stage) = 0 THEN <<>>
  ELSE longTermStorage[OwnIndex(longTermStorage, stage)].thoughts

\* A thought the specification promotes: score present and at least 0.7
Promoted(ref) == IsDefined(heap[ref].score) /\ heap[ref].score[1] >= 70

\* C16 (as stated): the long-term list of every stage S holds, in capture
\* order, exactly the thoughts accepted since the last clear whose stage is
\* S and whose score is present and at least 0.7.
C16_LongTermHoldsPromoted ==
  \A i \in DOMAIN ThoughtStage :
    LET ofStage(ref) == heap[ref].stage = ThoughtStage[i].value /\ Promoted(ref)
    IN LongTermOf(ThoughtStage[i].value) = SelectSeq(accepted, ofStage)

\* The tags of a stored thought, as a set
TagSet(ref) == {heap[ref].tags[i] : i \in DOMAIN heap[ref].tags}

\* The long-term thoughts that share a tag with the thought q: the stages in
\* the order long-term storage got them, each stage's list in its own order,
\* every stored copy counted
RelatedTo(q) ==
  LET shares(ref) == TagSet(ref) \cap TagSet(q) # {}
  IN Flatten([i \in DOMAIN longTermStorage |->
                SelectSeq(longTermStorage[i].thoughts, shares)])

\* C17: retrieveRelevantThoughts(n) returns exactly the long-term thoughts
\* that share at least one tag with the thought n, in storage order, one
\* entry per stored copy; a thought without tags gets an empty result.
C17_RelatedAreTagSharers ==
  (request.op = "retrieveRelevantThoughts" /\ IsSuccess(response))
    => LET q == Target(request.input.thought_id)
           related == RelatedTo(q)
       IN /\ response.body.retrieval.relatedThoughtsCount = Len(related)
          /\ response.body.retrieval.relatedThoughts =
               [i \in DOMAIN related |-> [thoughtNumber |-> heap[related[i]].thoughtNumber,
                                          stage |-> heap[related[i]].stage,
                                          tags |-> heap[related[i]].tags]]
          /\ heap[q].tags = <<>> => response.body.retrieval.relatedThoughts = <<>>

C17_Witness ==
  /\ request.op = "retrieveRelevantThoughts"
  /\ IsSuccess(response)
  /\ response.body.retrieval.relatedThoughtsCount = 1
  /\ response.body.retrieval.relatedThoughts[1].tags = <<"a", "b">>
  /\ heap[Target(request.input.thought_id)].tags = <<"a">>
  /\ \E i \in DOMAIN longTermStorage :
       \E j \in DOMAIN longTermStorage[i].thoughts :
         TagSet(longTermStorage[i].thoughts[j]) \cap {"a", "b"} = {}

\* The two thoughts of the scenario of C18, as stored
C18_First ==
  [thoughtNumber |-> 1, totalThoughts |-> 3, stage |-> ThoughtStage[1].value,
   isRevision |-> None, revisesThought |-> None, branchFromThought |-> None,
   branchId |-> None, score |-> Some(80), tags |-> <<"a">>]
C18_Second ==
  [thoughtNumber |-> 2, totalThoughts |-> 3, stage |-> ThoughtStage[4].value,
   isRevision |-> None, revisesThought |-> None, branchFromThought |-> Some(1),
   branchId |-> Some("b1"), score |-> Some(60), tags |-> <<"a">>]

\* The session stored exactly these two thoughts, in this order, since it
\* was new or cleared, and the last call is retrieveRelevantThoughts(1)
C18_Scenario ==
  /\ heap = <<C18_First, C18_Second>>
  /\ accepted = <<1, 2>>
  /\ request = [op |-> "retrieveRelevantThoughts", input |-> [thought_id |-> 1]]

\* C18 (as stated): in that scenario the call returns an empty list.
C18_ScenarioReturnsNothing ==
  C18_Scenario
    => /\ IsSuccess(response)
       /\ response.body.retrieval.relatedThoughts = <<>>

\* C18 (amended): in that scenario the call returns thought 1 itself and
\* nothing else: thought 1 is in long-term storage (0.8 >= 0.7) and shares
\* the tag a with itself; thought 2 (0.6) is not in the list.
C18_ScenarioReturnsItself ==
  C18_Scenario
    => /\ IsSuccess(response)
       /\ response.body.retrieval.relatedThoughtsCount = 1
       /\ response.body.retrieval.relatedThoughts =
            <<[thoughtNumber |-> 1, stage |-> ThoughtStage[1].value, tags |-> <<"a">>]>>

C18_Witness ==
  /\ C18_Scenario
  /\ IsSuccess(response)
  /\ response.body.retrieval.relatedThoughtsCount = 1

\* The step is a branchThought call
BranchStep == request'.op = "branchThought"

\* C19 (as stated): with a parent the history holds and a branchId that is
\* no key of the branch index, branchThought creates the branch (an empty
\* list) and reports it active; with a branchId that is a key already, the
\* call succeeds and creates nothing.
C19_FirstBranchCreates ==
  [][(BranchStep /\ Carried(request'.input.parent_thought_id)) =>
       /\ IsSuccess(response')
       /\ IF OwnIndex(branches, request'.input.branch_id) = 0
          THEN /\ branches' = Append(branches, [key |-> request'.input.branch_id,
                                                thoughts |-> <<>>])
               /\ activeBranchId' = Some(request'.input.branch_id)
               /\ response'.body.branching.isActive
          ELSE UNCHANGED <<branches, activeBranchId>>]_vars

\* C20: branchThought puts no thought in any branch list: every list that
\* was there keeps its contents and a list it creates is empty; with a
\* branchId that is a key already the branch index and the active branch do
\* not change; with a parent number the history lacks the call fails and no
\* branch is created. The thoughts and the memory tiers never change.
C20_BranchTouchesNoList ==
  [][BranchStep =>
       /\ SubSeq(branches', 1, Len(branches)) = branches
       /\ \A i \in DOMAIN branches' : i > Len(branches) => branches'[i].thoughts = <<>>
       /\ OwnIndex(branches, request'.input.branch_id) # 0
            => UNCHANGED <<branches, activeBranchId>>
       /\ ~Carried(request'.input.parent_thought_id)
            => (IsFailure(response') /\ UNCHANGED <<branches, activeBranchId>>)
       /\ UNCHANGED <<heap, thoughtHistory, shortTermBuffer, longTermStorage>>]_vars

C20_Witness ==
  /\ request.op = "branchThought"
  /\ request.input.branch_id = "b1"
  /\ IsSuccess(response)
  /\ Len(LongTermOf(IDEATION)) = 1
  /\ Len(branches) = 1
  /\ Len(branches[1].thoughts) = 1
  /\ activeBranchId = None

\* The call just made is a captureThought or composedThink call
CaptureStep == request'.op \in CaptureOps

\* C21 (as stated): a valid captureThought or composedThink input that
\* supplies both branchFromThought and branchId, whatever their values, has
\* its thought appended to the branch list keyed by branchId, created if the
\* branch index lacks the key; with either field missing the branch index
\* does not change.
C21_BothSuppliedAppends ==
  [][(CaptureStep /\ ~FailsValidation(request'.input)) =>
       IF IsDefined(request'.input.branchFromThought) /\ IsDefined(request'.input.branchId)
       THEN LET k == request'.input.branchId[1]
                made == IF OwnIndex(branches, k) = 0
                        THEN ObjectCreate(branches, k) ELSE branches
            IN /\ thoughtHistory' = Append(thoughtHistory, Len(heap) + 1)
               /\ branches' = ObjectPush(made, k, Len(heap) + 1)
       ELSE branches' = branches]_vars

\* The call just answered is get_thinking_summary
SummaryAnswered == request.op = "getThinkingSummary"

\* The summary returned is the no-thoughts marker
NoThoughtsMarker ==
  response.body.summary = [type |-> "string", text |-> "No thoughts recorded yet"]

\* C22 (as stated): summary returns the no-thoughts marker exactly when the
\* history is empty, which is exactly when no thought was accepted since the
\* session was created or cleared; after a single capture with score 0.5 it
\* reports totalThoughts = 1 and averageScore = 0.5 for that thought's stage.
C22_MarkerIffNothingAccepted ==
  SummaryAnswered =>
    /\ NoThoughtsMarker <=> thoughtHistory = <<>>
    /\ NoThoughtsMarker <=> accepted = <<>>
    /\ (Len(thoughtHistory) = 1 /\ heap[thoughtHistory[1]].score = Some(50)) =>
         /\ response.body.summary.totalThoughts = 1
         /\ response.body.summary.stages =
              <<[stage |-> heap[thoughtHistory[1]].stage, count |-> 1,
                 averageScore |-> NumberLiteral(50, 100)]>>

\* The positions of the history whose thought is in the stage
InStage(stage) == {i \in DOMAIN thoughtHistory : heap[thoughtHistory[i]].stage = stage}

\* The scores of the thoughts at the first n positions of the history that
\* are in the stage, added up in history order, an absent score counting as 0
RECURSIVE ScoreSum(_, _)
ScoreSum(stage, n) ==
  IF n = 0 THEN Zero
  ELSE IF n \notin InStage(stage) THEN ScoreSum(stage, n - 1)
  ELSE IF ~IsDefined(heap[thoughtHistory[n]].score) THEN NumberPlus(ScoreSum(stage, n - 1), Zero)
  ELSE NumberPlus(ScoreSum(stage, n - 1),
                  NumberLiteral(heap[thoughtHistory[n]].score[1], 100))

RECURSIVE SumOfCounts(_)
SumOfCounts(stages) ==
  IF stages = <<>> THEN 0 ELSE stages[1].count + SumOfCounts(Tail(stages))

\* C23: for a non-empty history the summary reports totalThoughts equal to
\* the history length (thoughts with the same number all counted), one entry
\* per stage of the history with counts that sum to totalThoughts, each
\* stage's averageScore equal to the sum of its scores (an absent score
\* counted as 0) divided by its count, revisions equal to the number of
\* entries whose isRevision is true, and a timeline with one entry per
\* thought in history order.
C23_SummaryCountsTheHistory ==
  (SummaryAnswered /\ thoughtHistory # <<>>) =>
    LET summary == response.body.summary IN
    /\ summary.type = "object"
    /\ summary.totalThoughts = Len(thoughtHistory)
    /\ SumOfCounts(summary.stages) = summary.totalThoughts
    /\ \A k, l \in DOMAIN summary.stages :
         summary.stages[k].stage = summary.stages[l].stage => k = l
    /\ \A i \in DOMAIN thoughtHistory :
         \E k \in DOMAIN summary.stages :
           summary.stages[k].stage = heap[thoughtHistory[i]].stage
    /\ \A k \in DOMAIN summary.stages :
         LET entry == summary.stages[k] IN
         /\ entry.count = Cardinality(InStage(entry.stage))
         /\ entry.count >= 1
         /\ entry.averageScore =
              NumberDividedBy(ScoreSum(entry.stage, Len(thoughtHistory)), entry.count)
    /\ summary.revisions =
         Cardinality({i \in DOMAIN thoughtHistory :
                        heap[thoughtHistory[i]].isRevision = Some(TRUE)})
    /\ Len(summary.timeline) = Len(thoughtHistory)
    /\ \A i \in DOMAIN thoughtHistory :
         /\ summary.timeline[i].number = heap[thoughtHistory[i]].thoughtNumber
         /\ summary.timeline[i].stage = heap[thoughtHistory[i]].stage
         /\ summary.timeline[i].score = heap[thoughtHistory[i]].score
         /\ summary.timeline[i].branch = heap[thoughtHistory[i]].branchId

\* A summary of two thoughts with the same number in one stage, one without
\* score and one with score 0.5: the stage has count 2 and averageScore 0.25
C23_Witness ==
  /\ SummaryAnswered
  /\ Len(thoughtHistory) = 2
  /\ heap[thoughtHistory[1]].thoughtNumber = heap[thoughtHistory[2]].thoughtNumber
  /\ heap[thoughtHistory[1]].stage = heap[thoughtHistory[2]].stage
  /\ heap[thoughtHistory[1]].score = None
  /\ heap[thoughtHistory[2]].score = Some(50)
  /\ response.body.summary.stages[1].count = 2
  /\ response.body.summary.stages[1].averageScore = NumberLiteral(25, 100)

\* The call just made is a clear_thinking_history call
ClearStep == request'.op = "clearHistory"

\* What a session holds when it is created: no thought, no branch, no active
\* branch, empty memory tiers
FreshSession ==
  /\ heap = <<>>
  /\ thoughtHistory = <<>>
  /\ branches = <<>>
  /\ activeBranchId = None
  /\ shortTermBuffer = <<>>
  /\ longTermStorage = <<>>
  /\ captured = {}
  /\ accepted = <<>>

\* C24: clearHistory, from any reachable state, leaves the session holding
\* what a freshly created one holds (empty history, branch index and memory
\* tiers, no active branch), so that the calls that follow are answered as
\* on a fresh session; a second clearHistory changes nothing and is answered
\* as the first.
C24_ClearedIsFresh ==
  [][ClearStep =>
       /\ FreshSession'
       /\ response' = Success([status |-> "success", message |-> "Thinking history cleared"])
       /\ request.op = "clearHistory" => UNCHANGED <<stores, captured, accepted, response>>]_vars

\* A cleared session
C24_Witness ==
  /\ request.op = "clearHistory"
  /\ FreshSession
  /\ IsSuccess(response)

\* C25: a successful composedThink reports a history length equal to the
\* length of the history with the thought just added, active branch ids that
\* are the keys of the branch index as the call leaves it (a branch the call
\* created among them), and the number, the canonical stage and the tags of
\* the thought as stored.
C25_ComposedReportsTheSessionAfter ==
  [][(request'.op = "composedThink" /\ IsSuccess(response')) =>
       LET context == response'.body.thoughtAnalysis.context
           current == response'.body.thoughtAnalysis.currentThought
           stored == heap'[thoughtHistory'[Len(thoughtHistory')]]
       IN /\ thoughtHistory' = Append(thoughtHistory, Len(heap) + 1)
          /\ context.thoughtHistoryLength = Len(thoughtHistory) + 1
          /\ {context.activeBranches[i] : i \in DOMAIN context.activeBranches}
               = {branches'[i].key : i \in DOMAIN branches'}
          /\ Len(context.activeBranches) = Len(branches')
          /\ \A i \in DOMAIN branches' \ DOMAIN branches :
               \E j \in DOMAIN context.activeBranches :
                 context.activeBranches[j] = branches'[i].key
          /\ current.thoughtNumber = request'.input.thoughtNumber
          /\ current.thoughtNumber = stored.thoughtNumber
          /\ \E s \in StagesNamed(request'.input.stage) :
               ThoughtStage[s].value = current.stage
          /\ current.stage = stored.stage
          /\ context.currentStage = stored.stage
          /\ current.tags = stored.tags]_vars

\* A composedThink call that created the second branch of the session and
\* reports both
C25_Witness ==
  /\ request.op = "composedThink"
  /\ IsSuccess(response)
  /\ request.input.branchId = Some("b2")
  /\ Len(branches) = 2
  /\ branches[2] = [key |-> "b2", thoughts |-> <<thoughtHistory[2]>>]
  /\ response.body.thoughtAnalysis.context.activeBranches = <<"b1", "b2">>
  /\ response.body.thoughtAnalysis.context.thoughtHistoryLength = 2

\* The call just answered is the monitor's evaluateThoughtQuality
EvaluateAnswered == request.op = "MetacognitiveMonitor.evaluateThoughtQuality"

\* The JS numbers 0.6719999999999999 (0x1.5810624dd2f1ap-1), the result of
\* (0.8 * 0.7) * 1.2, and 1
Number_0_6719999999999999 == [m |-> <<12058, 4980, 4194, 1376>>, e |-> -53]
Number_1 == [m |-> <<0, 0, 0, 1024>>, e |-> -52]

\* The six metrics of a thought with the stage and the score s (in
\* hundredths): the fractions of s, each product a JS number product, then
\* the factor 1.2 of the stage
MetricsOfScore(stage, s) ==
  LET n == NumberLiteral(s, 100)
      creativity == NumberTimes(n, NumberLiteral(70, 100))
      practicality == NumberTimes(n, NumberLiteral(90, 100))
  IN [coherence    |-> n,
      depth        |-> NumberTimes(n, NumberLiteral(80, 100)),
      creativity   |-> IF stage = ThoughtStage[5].value
                       THEN NumberTimes(creativity, NumberLiteral(120, 100))
                       ELSE creativity,
      practicality |-> IF stage = ThoughtStage[7].value
                       THEN NumberTimes(practicality, NumberLiteral(120, 100))
                       ELSE practicality,
      relevance    |-> NumberTimes(n, NumberLiteral(85, 100)),
      clarity      |-> NumberTimes(n, NumberLiteral(95, 100))]

\* What C26 says of every evaluation, the example aside
MetricsAsClaimed ==
  LET thought == request.input
      metrics == response.value
  IN /\ ~response.threw
     /\ IF IsDefined(thought.score)
        THEN metrics = MetricsOfScore(thought.stage, thought.score[1])
        ELSE \A m \in DOMAIN metrics : metrics[m] = Zero
     /\ DOMAIN metrics = {"coherence", "depth", "creativity", "practicality",
                          "relevance", "clarity"}
     \* not clamped: score 1 in the Evaluation stage gives practicality 1.08
     /\ (thought.score = Some(100) /\ thought.stage = ThoughtStage[7].value) =>
          /\ metrics.practicality = NumberLiteral(108, 100)
          /\ NumberLess(Number_1, metrics.practicality)

\* The thought of the example: score 0.8 in the Ideation stage
ExampleEvaluated ==
  /\ EvaluateAnswered
  /\ request.input.score = Some(80)
  /\ request.input.stage = ThoughtStage[5].value

\* C26 (as stated): evaluateQuality returns coherence = s, depth = 0.8 s,
\* creativity = 0.7 s, practicality = 0.9 s, relevance = 0.85 s and
\* clarity = 0.95 s, creativity times 1.2 in the Ideation stage or
\* practicality times 1.2 in the Evaluation stage, unclamped, and six zeros
\* without score; score 0.8 in the Ideation stage gives creativity 0.672 and
\* coherence 0.8.
C26_ExampleGives0672 ==
  /\ EvaluateAnswered => MetricsAsClaimed
  /\ ExampleEvaluated =>
       /\ response.value.creativity = NumberLiteral(672, 1000)
       /\ response.value.coherence = NumberLiteral(80, 100)

\* C26 (amended): the same, each product being the binary64 product of the
\* code; score 0.8 in the Ideation stage gives creativity
\* 0.6719999999999999, the number next below 0.672, and coherence 0.8.
C26_ExampleGivesNumberBelow0672 ==
  /\ EvaluateAnswered => MetricsAsClaimed
  /\ ExampleEvaluated =>
       /\ response.value.creativity = Number_0_6719999999999999
       /\ NumberLess(response.value.creativity, NumberLiteral(672, 1000))
       /\ response.value.coherence = NumberLiteral(80, 100)

\* The evaluation of the example
C26_Witness ==
  /\ ExampleEvaluated
  /\ response.value.creativity = Number_0_6719999999999999
  /\ response.value.creativity # NumberLiteral(672, 1000)
  /\ response.value.coherence = NumberLiteral(80, 100)

\* The metric names in the order C27 gives
ClaimedOrder == <<"coherence", "depth", "creativity", "practicality", "relevance", "clarity">>

\* The metrics the suggestions just returned were made from
SuggestedFor ==
  IF request.op = "MetacognitiveMonitor.generateImprovementSuggestions"
  THEN request.input
  ELSE IF IsDefined(request.input.score)
  THEN MetricsOfScore(request.input.stage, request.input.score[1])
  ELSE [m \in {ClaimedOrder[k] : k \in DOMAIN ClaimedOrder} |-> Zero]

\* The positions in ClaimedOrder of the metrics strictly below 0.7
BelowThreshold ==
  {k \in DOMAIN ClaimedOrder : NumberLess(SuggestedFor[ClaimedOrder[k]], NumberLiteral(70, 100))}

\* C27: the suggestion list holds exactly one suggestion, the fixed one of
\* the metric, for each metric whose value is strictly below 0.7 and none for
\* a metric equal to or above 0.7, in the order coherence, depth,
\* creativity, practicality, relevance, clarity; a thought without score
\* gets all six.
C27_OneSuggestionPerLowMetric ==
  (request.op \in {"MetacognitiveMonitor.generateImprovementSuggestions",
                   "MetacognitiveMonitor.suggestImprovements"}) =>
    LET suggestions == response.value IN
    /\ ~response.threw
    /\ Len(suggestions) = Cardinality(BelowThreshold)
    /\ \A i \in DOMAIN suggestions :
         \E k \in BelowThreshold :
           /\ Cardinality({j \in BelowThreshold : j < k}) = i - 1
           /\ suggestions[i] = Suggestion[ClaimedOrder[k]]
    /\ \A k, l \in DOMAIN ClaimedOrder :
         Suggestion[ClaimedOrder[k]] = Suggestion[ClaimedOrder[l]] => k = l
    /\ (request.op = "MetacognitiveMonitor.suggestImprovements"
          /\ ~IsDefined(request.input.score)) =>
         suggestions = [k \in 1..6 |-> Suggestion[ClaimedOrder[k]]]

\* Suggestions for metrics of which coherence and creativity equal 0.7,
\* depth and clarity are below it and the others above: two suggestions, depth's
\* before clarity's
C27_Witness ==
  /\ request.op = "MetacognitiveMonitor.generateImprovementSuggestions"
  /\ request.input = [coherence    |-> NumberLiteral(70, 100),
                      depth        |-> NumberLiteral(69, 100),
                      creativity   |-> NumberLiteral(70, 100),
                      practicality |-> NumberLiteral(108, 100),
                      relevance    |-> NumberLiteral(108, 100),
                      clarity      |-> NumberLiteral(69, 100)]
  /\ response.value = <<"Try exploring the concept more thoroughly",
                        "Try expressing ideas more clearly">>


\* What the call of a handler makes of the session the handler found, when
\* the call runs alone from its first statement to its last
SerialEffect(task) ==
  LET b == task.before
      v == validateThoughtData(task.call.input)
      thoughtData == IF task.call.op = "composedThink"
                     THEN applyReasoningStrategy(v.value) ELSE v.value
      ref == Len(b.heap) + 1
      mem == consolidateMemory(b.shortTermBuffer, b.longTermStorage, ref, thoughtData)
      br == HandleBranching(b.branches, ref, thoughtData)
  IN IF task.call.op = "getThinkingSummary" \/ v.threw
     THEN <<b.heap, b.thoughtHistory, b.branches, b.activeBranchId,
            b.shortTermBuffer, b.longTermStorage>>
     ELSE <<Append(b.heap, thoughtData), Append(b.thoughtHistory, ref), br.branches,
            b.activeBranchId, mem.shortTermBuffer, mem.longTermStorage>>

\* C28: tool calls are processed one at a time. With calls received while
\* others are in flight, at most one handler is ever begun and not finished,
\* and a handler that finishes leaves the history, the branch index and the
\* memory tiers as its call makes them when it runs alone on the session it
\* found: the calls take effect in the serial order in which they were begun
C28_CallsRunOneAtATime ==
  [][/\ Len(eventLoop'.tasks) <= 1
     /\ \A i \in DOMAIN eventLoop.tasks :
          eventLoop'.tasks = Without(eventLoop.tasks, i)
            => stores' = SerialEffect(eventLoop.tasks[i])]_vars

\* A capture has put its thought in the history and not yet in the branch
\* index, and another call is waiting to be handled
C28_Witness ==
  \E i \in DOMAIN eventLoop.tasks :
    /\ eventLoop.tasks[i].pc = "branches.push"
    /\ \E k \in DOMAIN thoughtHistory : thoughtHistory[k] = eventLoop.tasks[i].ref
    /\ ObjectOwnKeys(branches) = <<>>
    /\ eventLoop.pending # <<>>


\* The rules of validation in the order of the claim, and the words by which
\* a failure message names each
RuleOrder == <<"stage", "number", "total", "score", "revision">>
RuleBroken(rule, input) ==
  CASE rule = "stage"    -> BreaksStage(input)
    [] rule = "number"   -> BreaksNumber(input)
    [] rule = "total"    -> BreaksTotal(input)
    [] rule = "score"    -> BreaksScore(input)
    [] rule = "revision" -> BreaksRevision(input)
RuleWords(rule) ==
  CASE rule = "stage"    -> <<"Invalid", "stage:">>
    [] rule = "number"   -> <<"Thought", "number", "must", "be", "positive">>
    [] rule = "total"    -> <<"Total", "thoughts", "must", "be", "greater">>
    [] rule = "score"    -> <<"Score", "must", "be", "between">>
    [] rule = "revision" -> <<"Cannot", "revise">>

\* The failure message names the rule; a stage that is missing altogether
\* fails stage resolution with the TypeError of reading a property of undefined
RuleNamed(rule, words) ==
  \/ Contains(words, RuleWords(rule))
  \/ rule = "stage" /\ Contains(words, <<"Cannot", "read", "properties", "of", "undefined">>)

\* The call just answered was rejected by validation and its message names
\* the k-th rule and no other; nothing was stored
RejectedByRule(k) ==
  /\ IsFailure(response')
  /\ stores' = stores
  /\ \A j \in DOMAIN RuleOrder :
       RuleNamed(RuleOrder[j], response'.body.error.words) <=> j = k

\* Validation accepted the input of the call just answered: the thought it
\* built was stored at the end of the history
AcceptedByValidation ==
  /\ Len(thoughtHistory') = Len(thoughtHistory) + 1
  /\ heap'[thoughtHistory'[Len(thoughtHistory')]].thoughtNumber = request'.input.thoughtNumber
  /\ heap'[thoughtHistory'[Len(thoughtHistory')]].totalThoughts = request'.input.totalThoughts

\* The first broken rule is the only one reported, and an input that breaks
\* none is accepted
FirstBrokenRuleReported ==
  /\ \A k \in DOMAIN RuleOrder :
       (/\ RuleBroken(RuleOrder[k], request'.input)
        /\ \A j \in 1..(k - 1) : ~RuleBroken(RuleOrder[j], request'.input))
         => RejectedByRule(k)
  /\ ~FailsValidation(request'.input) => AcceptedByValidation

ReadOps == {"evaluateThoughtQuality", "retrieveRelevantThoughts", "getThinkingSummary"}

\* C30: evaluateThoughtQuality, retrieveRelevantThoughts and the summary are
\* read-only: whether the call succeeds or fails, the history and every
\* thought object in it (its tags included), the branch index, the active
\* branch and both memory tiers are after the call what they were before.
C30_ReadOperationsChangeNothing ==
  [][request'.op \in ReadOps =>
       /\ heap' = heap
       /\ thoughtHistory' = thoughtHistory
       /\ branches' = branches
       /\ activeBranchId' = activeBranchId
       /\ shortTermBuffer' = shortTermBuffer
       /\ longTermStorage' = longTermStorage]_vars

\* A retrieval was answered for a thought of a session that holds a tagged
\* thought in its history, a branch and a thought in long-term storage
C30_Witness ==
  /\ request.op = "retrieveRelevantThoughts"
  /\ IsSuccess(response)
  /\ \E i \in DOMAIN thoughtHistory : heap[thoughtHistory[i]].tags # <<>>
  /\ branches # <<>>
  /\ longTermStorage # <<>>
  /\ shortTermBuffer # <<>>


\* seq is the beginning of longer
IsPrefix(seq, longer) ==
  Len(seq) <= Len(longer) /\ SubSeq(longer, 1, Len(seq)) = seq

\* The entries the history had are still there in their places, each with the
\* fields it had and the tags it had, possibly followed by new tags
EntriesOnlyGainTags ==
  /\ IsPrefix(thoughtHistory, thoughtHistory')
  /\ \A i \in DOMAIN thoughtHistory :
       /\ heap'[thoughtHistory[i]] =
            [heap[thoughtHistory[i]] EXCEPT !.tags = heap'[thoughtHistory[i]].tags]
       /\ IsPrefix(heap[thoughtHistory[i]].tags, heap'[thoughtHistory[i]].tags)

\* C31 (as stated): between two clears the history is append-only. Each
\* successful captureThought or composedThink appends exactly one entry at
\* the end, every other operation leaves the length and the order of the
\* history unchanged, and an existing entry changes only by gaining tags.
C31_HistoryAppendOnly ==
  [][~ClearStep =>
       /\ EntriesOnlyGainTags
       /\ IF CaptureStep /\ IsSuccess(response')
          THEN Len(thoughtHistory') = Len(thoughtHistory) + 1
          ELSE thoughtHistory' = thoughtHistory]_vars


\* The places of the history, after the first, whose entry carries the number n
LaterCarriers(n) ==
  {i \in DOMAIN thoughtHistory :
     /\ heap[thoughtHistory[i]].thoughtNumber = n
     /\ thoughtHistory[i] # Target(n)}

\* C32: thought numbers need not be unique. A captureThought whose input
\* passes validation joins the history also when its number is there
\* already, and a successful applyReasoning(n), evaluateThoughtQuality(n) or
\* retrieveRelevantThoughts(n) acts on the earliest-captured entry with the
\* number n: applyReasoning tags that entry and no later one, the evaluation
\* is the one of its score, the retrieval the one for its tags.
C32_EarliestOfANumberIsLookedUp ==
  [][/\ (/\ request'.op = "captureThought"
         /\ ~FailsValidation(request'.input)
         /\ Carried(request'.input.thoughtNumber))
          => /\ Len(thoughtHistory') = Len(thoughtHistory) + 1
             /\ IsPrefix(thoughtHistory, thoughtHistory')
             /\ heap'[thoughtHistory'[Len(thoughtHistory')]].thoughtNumber =
                  request'.input.thoughtNumber
     /\ (request'.op \in LookupOps /\ IsSuccess(response'))
          => LET n == request'.input.thought_id
                 first == Target(n)
             IN /\ request'.op = "applyReasoning"
                     => /\ Len(heap'[first].tags) = Len(heap[first].tags) + 1
                        /\ response'.body.reasoningApplied.tags = heap'[first].tags
                        /\ \A i \in LaterCarriers(n) :
                             heap'[thoughtHistory[i]] = heap[thoughtHistory[i]]
                /\ request'.op = "evaluateThoughtQuality"
                     => response'.body.evaluation.qualityMetrics =
                          evaluateThoughtQuality_metrics(heap[first])
                /\ request'.op = "retrieveRelevantThoughts"
                     => response'.body.retrieval.relatedThoughtsCount =
                          Len(RelatedTo(first))]_vars

\* Two entries carry the number 1, the later one promoted and tagged by
\* composedThink, the earlier one without score and tags; the lookup of 1
\* answered for the earlier one
C32_Witness ==
  /\ Len(thoughtHistory) = 2
  /\ heap[thoughtHistory[1]].thoughtNumber = 1
  /\ heap[thoughtHistory[2]].thoughtNumber = 1
  /\ heap[thoughtHistory[1]].score = None
  /\ heap[thoughtHistory[2]].score = Some(80)
  /\ heap[thoughtHistory[2]].tags = <<"creative">>
  /\ request.op = "retrieveRelevantThoughts"
  /\ request.input.thought_id = 1
  /\ IsSuccess(response)
  /\ response.body.retrieval.relatedThoughtsCount = 0


\* The promoted thoughts of the history, in capture order
PromotedHistory == SelectSeq(thoughtHistory, Promoted)

\* What the specification says a retrieval for the thought q returns: for
\* every stage, in the order in which the stages got their first promoted
\* thought, the promoted thoughts of the stage that share a tag with q, in
\* the order of their promotion
GroupedByStage(q) ==
  LET p == PromotedHistory
      opens(i) == \A j \in 1..(i - 1) : heap[p[j]].stage # heap[p[i]].stage
      group(i) ==
        LET member(ref) == /\ heap[ref].stage = heap[p[i]].stage
                           /\ TagSet(ref) \cap TagSet(q) # {}
        IN SelectSeq(p, member)
  IN Flatten([i \in DOMAIN p |-> IF opens(i) THEN group(i) ELSE <<>>])

\* C33: retrieveRelevantThoughts returns its matches grouped by stage, the
\* stages in the order in which each first received a long-term thought and
\* the thoughts of a stage in promotion order, which need not be the order
\* of capture.
C33_RelatedGroupedByStage ==
  (request.op = "retrieveRelevantThoughts" /\ IsSuccess(response))
    => response.body.retrieval.relatedThoughts =
         Projection(heap, GroupedByStage(Target(request.input.thought_id)))

\* Promoted thoughts A (stage X), B (stage Y), C (stage X), captured in this
\* order and all sharing a tag, came back as A, C, B
C33_Witness ==
  /\ request.op = "retrieveRelevantThoughts"
  /\ IsSuccess(response)
  /\ Len(thoughtHistory) = 3
  /\ \A i \in 1..3 : Promoted(thoughtHistory[i]) /\ "a" \in TagSet(thoughtHistory[i])
  /\ heap[thoughtHistory[1]].stage = heap[thoughtHistory[3]].stage
  /\ heap[thoughtHistory[1]].stage # heap[thoughtHistory[2]].stage
  /\ heap[thoughtHistory[1]].tags # heap[thoughtHistory[3]].tags
  /\ response.body.retrieval.relatedThoughts =
       Projection(heap, <<thoughtHistory[1], thoughtHistory[3], thoughtHistory[2]>>)


\* The thought objects of the history
HistoryRefs == {thoughtHistory[i] : i \in DOMAIN thoughtHistory}

\* The answer of a retrieval names the thought ref with the tags it has now
Returned(ref) ==
  \E k \in DOMAIN response.body.retrieval.relatedThoughts :
    response.body.retrieval.relatedThoughts[k] = Projection(heap, <<ref>>)[1]

\* C34: what the short-term buffer, long-term storage and the branch lists
\* hold of a thought is the thought's entry in the history itself, so it
\* carries the tags of that entry at all times; hence a retrieval returns
\* every promoted entry of the history that shares a tag with the thought
\* asked about, with the tags the entry has now, also when the only shared
\* tag is one applyReasoning added after the promotion.
C34_CopiesCarryTheTagsOfTheHistory ==
  /\ HeldRefs = HistoryRefs
  /\ (request.op = "retrieveRelevantThoughts" /\ IsSuccess(response))
       => \A ref \in HistoryRefs :
            (/\ Promoted(ref)
             /\ TagSet(ref) \cap TagSet(Target(request.input.thought_id)) # {})
              => Returned(ref)

\* Thought 1 was promoted without tags, then tagged by applyReasoning; the
\* retrieval for thought 2, whose only tag is that one, returned thought 1.
\* Thought 2 sits in the branch list and was tagged there as well.
C34_Witness ==
  /\ request = [op |-> "retrieveRelevantThoughts", input |-> [thought_id |-> 2]]
  /\ IsSuccess(response)
  /\ Len(thoughtHistory) = 2
  /\ heap[thoughtHistory[1]].thoughtNumber = 1
  /\ heap[thoughtHistory[1]].tags = <<"creative">>
  /\ LongTermOf(IDEATION) = <<thoughtHistory[1]>>
  /\ heap[thoughtHistory[2]].score = Some(50)
  /\ heap[thoughtHistory[2]].tags = <<"creative", "inductive">>
  /\ \E i \in DOMAIN branches : branches[i].thoughts = <<thoughtHistory[2]>>
  /\ response.body.retrieval.relatedThoughts =
       <<[thoughtNumber |-> 1, stage |-> IDEATION, tags |-> <<"creative">>]>>


\* The keys of the branch index, in the order of their creation
BranchKeys == ObjectOwnKeys(branches)

\* k is a key of the branch index
IsBranch(k) == \E i \in DOMAIN branches : branches[i].key = k

\* C35: the active branch is none or a key of the branch index. It changes
\* only when branchThought creates a branch, to the id of that branch, or
\* when clearHistory resets it to none; keys stay in the index until the
\* next clear. So captureThought and composedThink never change it, a branch
\* they created never becomes active, and branchThought on a branch that is
\* there already leaves it as it is and reports the branch active exactly
\* when it was active before the call.
C35_ActiveBranchSetOnlyByBranch ==
  [][/\ activeBranchId' = None \/ OwnIndex(branches', activeBranchId'[1]) # 0
     /\ activeBranchId' # activeBranchId
          => \/ /\ BranchStep
                /\ ~IsBranch(request'.input.branch_id)
                /\ OwnIndex(branches', request'.input.branch_id) # 0
                /\ activeBranchId' = Some(request'.input.branch_id)
             \/ ClearStep /\ activeBranchId' = None
     /\ ~ClearStep => IsPrefix(BranchKeys, ObjectOwnKeys(branches'))
     /\ (BranchStep /\ IsSuccess(response') /\ IsBranch(request'.input.branch_id))
          => /\ UNCHANGED <<branches, activeBranchId>>
             /\ response'.body.branching.isActive =
                  (activeBranchId = Some(request'.input.branch_id))]_vars

\* The branch b1 was created by a capture while b2, created by branchThought,
\* was active; the branchThought call on b1 then reported it not active
C35_Witness ==
  /\ request.op = "branchThought"
  /\ request.input.branch_id = "b1"
  /\ IsSuccess(response)
  /\ ~response.body.branching.isActive
  /\ BranchKeys = <<"b2", "b1">>
  /\ activeBranchId = Some("b2")
  /\ \E i \in DOMAIN branches : branches[i].key = "b1" /\ branches[i].thoughts # <<>>


\* The places of the branch index: list i, position j
BranchPlaces ==
  UNION {{<<i, j>> : j \in DOMAIN branches[i].thoughts} : i \in DOMAIN branches}

\* The thoughts accepted since the last clear whose input supplied the
\* branchId k together with a branchFromThought
SuppliedBranch(k) ==
  {a \in DOMAIN accepted :
     /\ heap[accepted[a]].branchId = Some(k)
     /\ IsDefined(heap[accepted[a]].branchFromThought)}

\* C36 (as stated): every thought of the branch list keyed by k is an entry
\* of the history with branchId k, no history entry is in two places of the
\* branch index, and the size the summary reports for k is the number of
\* thoughts accepted since the last clear that supplied branchId k together
\* with a branchFromThought (0 for a branch only branchThought created).
C36_BranchListsMatchTheHistory ==
  /\ \A p \in BranchPlaces :
       /\ branches[p[1]].thoughts[p[2]] \in HistoryRefs
       /\ heap[branches[p[1]].thoughts[p[2]]].branchId = Some(branches[p[1]].key)
  /\ \A p, q \in BranchPlaces :
       branches[p[1]].thoughts[p[2]] = branches[q[1]].thoughts[q[2]] => p = q
  /\ thoughtHistory # <<>>
       => LET reported == generateSummary(thoughtHistory, heap, branches).summary.branches
          IN \A i \in DOMAIN reported :
               reported[i].size = Cardinality(SuppliedBranch(reported[i].branchId))


\* The six stores as a record
Session(s) ==
  [heap |-> s[1], thoughtHistory |-> s[2], branches |-> s[3], activeBranchId |-> s[4],
   shortTermBuffer |-> s[5], longTermStorage |-> s[6]]

\* The stores after captureThought(input) on the stores s
AfterCapture(s, input) ==
  SerialEffect([before |-> Session(s), call |-> [op |-> "captureThought", input |-> input]])

\* The stores after applyReasoning(n) on the stores s
AfterApply(s, n) ==
  LET found == findThoughtById(s[2], s[1], n) IN
  IF ~IsDefined(found) THEN s
  ELSE LET objects == [s[1] EXCEPT ![found[1]] = applyReasoningStrategy(s[1][found[1]])]
       IN <<objects, updateThought(s[2], objects, found[1]), s[3], s[4], s[5], s[6]>>

\* C37: for an input that passes validation and whose number the history
\* does not hold, composedThink(raw) leaves the thoughts, the history, the
\* branch index, the active branch and both memory tiers as
\* captureThought(raw) followed by applyReasoning(raw.thoughtNumber) leaves
\* them; captureThought and applyReasoning themselves have these effects.
C37_ComposedIsCaptureThenApply ==
  [][/\ request'.op = "captureThought" => stores' = AfterCapture(stores, request'.input)
     /\ request'.op = "applyReasoning" => stores' = AfterApply(stores, request'.input.thought_id)
     /\ (/\ request'.op = "composedThink"
         /\ ~FailsValidation(request'.input)
         /\ ~Carried(request'.input.thoughtNumber))
          => stores' = AfterApply(AfterCapture(stores, request'.input),
                                  request'.input.thoughtNumber)]_vars

\* composedThink stored thought 2, new to the history, promoted and in the
\* branch b1, next to an earlier thought
C37_Witness ==
  /\ request.op = "composedThink"
  /\ IsSuccess(response)
  /\ Len(thoughtHistory) = 2
  /\ heap[thoughtHistory[1]].thoughtNumber = 1
  /\ heap[thoughtHistory[2]].thoughtNumber = 2
  /\ heap[thoughtHistory[2]].tags = <<"creative", "inductive">>
  /\ LongTermOf(SYNTHESIS) = <<thoughtHistory[2]>>
  /\ \E i \in DOMAIN branches : branches[i].thoughts = <<thoughtHistory[2]>>


\* The thoughts long-term storage holds before the call that share a tag
\* with the thought the call stores
EarlierRelated ==
  LET new == heap'[thoughtHistory'[Len(thoughtHistory')]]
      shares(ref) == TagSet(ref) \cap {new.tags[i] : i \in DOMAIN new.tags} # {}
  IN Flatten([i \in DOMAIN longTermStorage |->
                SelectSeq(longTermStorage[i].thoughts, shares)])

\* C38: composedThink consolidates the thought before it retrieves the
\* related thoughts. With a score of at least 0.7 the related count of a
\* successful call is the number of earlier long-term thoughts that share a
\* tag with the new thought plus one, the new thought itself, so it is at
\* least 1; with a lower score or none it is the number of those earlier
\* thoughts alone.
C38_RelatedCountIncludesPromotedSelf ==
  [][(request'.op = "composedThink" /\ IsSuccess(response')) =>
       LET count == response'.body.thoughtAnalysis.analysis.relatedThoughtsCount
           score == request'.input.score
       IN IF IsDefined(score) /\ score[1] >= 70
          THEN /\ count = Len(EarlierRelated) + 1
               /\ count >= 1
               /\ \E i \in DOMAIN longTermStorage' :
                    LET list == longTermStorage'[i].thoughts
                    IN list # <<>> /\ list[Len(list)] = thoughtHistory'[Len(thoughtHistory')]
          ELSE count = Len(EarlierRelated)]_vars

\* A composedThink call with score 0.8 and no tags of its own, on a session
\* without long-term thoughts, reported one related thought: itself
C38_Witness ==
  /\ request.op = "composedThink"
  /\ IsSuccess(response)
  /\ request.input.score = Some(80)
  /\ request.input.tags = <<>>
  /\ Len(thoughtHistory) = 2
  /\ \A i \in DOMAIN longTermStorage : longTermStorage[i].thoughts = <<thoughtHistory[2]>>
  /\ response.body.thoughtAnalysis.analysis.relatedThoughtsCount = 1


\* The tags the specification lets the system append
SystemTags == {"deductive", "creative", "inductive"}

\* The tags a thought had before the step: those it carried, or those of the
\* input for a thought the step stores
TagsBefore(ref) ==
  IF ref \in DOMAIN heap THEN heap[ref].tags ELSE request'.input.tags

===========================================================================
